---- MODULE Spec2Model ----
(***************************************************************************)
(* Model of dreamr's video generation orchestrator (DreamVideoGenerator,   *)
(* src/unnamed/part_005 lines 698-1323, the version the Record screen      *)
(* imports), of its progress bus and of the module-level helpers           *)
(* onVideoGenerationProgress / generateDreamVideoWithProgress.             *)
(*                                                                         *)
(* An invocation of generateVideo is an async function: it runs            *)
(* atomically between awaits.  Every action below is one such segment:     *)
(* the call up to the first fetch, the handling of a fetch's answer up to  *)
(* the next fetch or sleep, the end of a sleep up to the next fetch.       *)
(* Strings the code trims, searches or splits are sequences of one-letter  *)
(* strings; strings the code only copies or tests for emptiness (urls,     *)
(* ids, reasons, bodies) are TLA+ strings, "" standing for every falsy     *)
(* value (undefined, null, "").                                            *)
(***************************************************************************)
EXTENDS Integers, Sequences, FiniteSets, TLC

\* ------------------------------------------------------------------ bounds

\* maxPollAttempts the generators are constructed with (config.maxPollAttempts)
MaxPollAttempts == 3

\* how many times one callback may be pushed on one listener list
MaxListeners == 2

\* how many times onProgress may be called on one listener list
MaxSubscriptions == 2

\* how many times one unsubscribe closure may be called
MaxCalls == 2

\* how many DreamVideoGenerator objects the module-level helpers may create
MaxGenerators == 3

\* calls of the Record screen's generateVideo that pass its entry guard
MaxRuns == 2

\* DREAM_CONFIG.luma.pollInterval, in seconds
PollInterval == 5

\* ----------------------------------------------------------------- strings

Some(x) == <<x>>

None == <<>>

Whitespace == {" ", "\n"}

RECURSIVE TrimStart(_)
TrimStart(s) ==
    IF s = <<>> THEN <<>>
    ELSE IF Head(s) \in Whitespace THEN TrimStart(Tail(s)) ELSE s

RECURSIVE TrimEnd(_)
TrimEnd(s) ==
    IF s = <<>> THEN <<>>
    ELSE IF s[Len(s)] \in Whitespace THEN TrimEnd(SubSeq(s, 1, Len(s) - 1)) ELSE s

\* String.prototype.trim
Trim(s) == TrimEnd(TrimStart(s))

Delimiter == <<"*", "*", "*", "*", "*">>

\* String.prototype.indexOf, 1-based; 0 when d does not occur in s
IndexOf(s, d) ==
    LET hits == {k \in 1..(Len(s) - Len(d) + 1) : SubSeq(s, k, k + Len(d) - 1) = d}
    IN  IF hits = {} THEN 0 ELSE CHOOSE k \in hits : \A h \in hits : k <= h

\* String.prototype.includes
Includes(s, d) == IndexOf(s, d) # 0

\* String.prototype.split with a non-empty separator: every part, in order
RECURSIVE Split(_, _)
Split(s, d) ==
    LET k == IndexOf(s, d)
    IN  IF k = 0 THEN <<s>>
        ELSE <<SubSeq(s, 1, k - 1)>> \o Split(SubSeq(s, k + Len(d), Len(s)), d)

\* a || b on strings: the empty string is falsy
OrElse(a, b) == IF a # <<>> THEN a ELSE b

\* "Continue on with this video"
DefaultExtensionPrompt ==
    <<"C", "o", "n", "t", "i", "n", "u", "e", " ", "o", "n", " ",
      "w", "i", "t", "h", " ", "t", "h", "i", "s", " ", "v", "i", "d", "e", "o">>

\* ------------------------------------------------------------------ inputs

Prompts ==
    { <<>>,
      <<" ">>,
      <<" ", "\n">>,
      <<" ", "A", " ">>,
      <<"A", " ">> \o Delimiter \o <<" ", "B">> }

\* the optional third argument of generateVideo: None is undefined
ExtensionPrompts == { None, Some(<<"E">>) }

\* prompts around the separator: both sides, one side empty, no side,
\* two separators, none
PromptCases ==
    { <<"A">> \o Delimiter \o <<"B">>,
      <<" ", "A", " ">> \o Delimiter \o <<" ", "B", "\n">>,
      Delimiter \o <<"B">>,
      <<"A">> \o Delimiter,
      <<" ">> \o Delimiter \o <<" ">>,
      <<"A">> \o Delimiter \o <<"B">> \o Delimiter \o <<"C">>,
      <<"A">>,
      <<" ", "A", "\n">> }

\* extension prompts: undefined, "", plain, and with the separator in them
ExtensionCases ==
    { None,
      Some(<<>>),
      Some(<<"E">>),
      Some(<<"X">> \o Delimiter \o <<" ", "Y">>),
      Some(<<"X">> \o Delimiter) }

Callbacks == {"c1", "c2"}

Invocations == {1, 2}

Generators == 1..MaxGenerators

\* --------------------------------------------------------------- responses

\* An answer to fetch: kind "reject" is a rejected promise (network error,
\* or a body that does not parse); kind "http" is a Response.
Response(kind, ok, status, body, id, state, video, url, videosUrl, resultUrl, reason, err) ==
    [kind |-> kind, ok |-> ok, status |-> status, body |-> body, id |-> id,
     state |-> state, video |-> video, url |-> url, videosUrl |-> videosUrl,
     resultUrl |-> resultUrl, failure_reason |-> reason, error |-> err]

NetworkFailure == Response("reject", FALSE, 0, "", "", "", "", "", "", "", "", "")

HttpFailure(status, body) ==
    Response("http", FALSE, status, body, "", "", "", "", "", "", "", "")

Created(id) == Response("http", TRUE, 201, "", id, "", "", "", "", "", "", "")

Status(state, video, url, videosUrl, resultUrl, reason, err) ==
    Response("http", TRUE, 200, "", "", state, video, url, videosUrl, resultUrl, reason, err)

NoResponse == Response("none", FALSE, 0, "", "", "", "", "", "", "", "", "")

\* answers to POST /generations
CreateResponses ==
    { NetworkFailure, HttpFailure(400, "bad request"), Created(""), Created("g1"), Created("g2") }

\* answers to GET /generations/{id}
StatusResponses ==
    { NetworkFailure,
      HttpFailure(500, "oops"),
      Status("queued", "", "", "", "", "", ""),
      Status("processing", "", "", "", "", "", ""),
      Status("completed", "", "https://x/video.mp4", "", "", "", ""),
      Status("succeeded", "v1", "", "", "r1", "", ""),
      Status("completed", "", "", "", "", "", ""),
      Status("failed", "", "", "", "", "content policy violation", ""),
      Status("error", "", "", "", "", "", "quota") }

\* ------------------------------------------------------------------ errors

\* new Error(...): the template of the message, the number and the text
\* interpolated into it (0 and "" when the template has no such hole)
Err(message, number, text) == [message |-> message, number |-> number, text |-> text]

NoError == Err("", 0, "")

EmptyPromptError == Err("Video prompt cannot be empty", 0, "")

\* what a rejected fetch throws
NetworkError == Err("Network request failed", 0, "")

ApiError(status, body) == Err("LumaLabs API error: ${status} - ${errorText}", status, body)

ApiExtendError(status, body) ==
    Err("LumaLabs API error (extend): ${status} - ${errorText}", status, body)

MissingIdError == Err("Failed to get generation ID from LumaLabs response", 0, "")

MissingExtensionIdError ==
    Err("Failed to get extension generation ID from LumaLabs response", 0, "")

NoVideoUrlError == Err("Video URL not found in completed response", 0, "")

GenerationFailedError(reason) == Err("Video generation failed: ${errorMsg}", 0, reason)

TimedOutError(max) ==
    Err("Timed out waiting for video generation after ${maxPollAttempts} attempts", max, "")

\* ------------------------------------------------------------------ events

\* VideoGenerationProgress; the optional numbers are None when left out
Progress(status, message, cause, progress, attempt, maxAttempts, eta) ==
    [status |-> status, message |-> message, cause |-> cause, progress |-> progress,
     attempt |-> attempt, maxAttempts |-> maxAttempts, estimatedTimeRemaining |-> eta]

NoEvent == Progress("idle", "", NoError, None, None, None, None)

EmptyPromptEvent ==
    Progress("error", "Video prompt cannot be empty", NoError, None, None, None, None)

StartingEvent ==
    Progress("starting", "Starting video generation...", NoError, Some(5), None, None, None)

CreatingEvent ==
    Progress("generating", "AI is creating your dream video...", NoError,
             Some(20), None, None, Some(120))

ExtendingEvent ==
    Progress("generating", "Extending video with additional content...", NoError,
             Some(60), None, None, None)

CompletedEvent ==
    Progress("completed", "Video generated successfully!", NoError, Some(100), None, None, None)

\* the event of generateVideo's catch block
ErrorEvent(err) ==
    Progress("error", "Video generation failed: ${errorMessage}", err, None, None, None, None)

Min(a, b) == IF a <= b THEN a ELSE b

Max(a, b) == IF a >= b THEN a ELSE b

\* Math.round(progress) where progress = 20 + (attempt / max) * 70 adjusted by
\* the state; the value is kept as the numerator of a fraction over max
PollProgress(state, attempt, max) ==
    LET base == 20 * max + 70 * attempt
        num  == IF state = "queued" THEN Min(base, 40 * max)
                ELSE IF state \in {"processing", "generating"} THEN Max(base, 50 * max)
                ELSE IF state \in {"completed", "succeeded"} THEN 95 * max
                ELSE base
    IN  (2 * num + max) \div (2 * max)

PollMessage(state) ==
    IF state = "queued" THEN "Video request queued for processing..."
    ELSE IF state \in {"processing", "generating"} THEN "AI is dreaming your video..."
    ELSE IF state \in {"completed", "succeeded"} THEN "Finalizing your dream video..."
    ELSE "AI is creating your dream video..."

PollEvent(state, attempt, max, interval) ==
    Progress("generating", PollMessage(state), NoError,
             Some(PollProgress(state, attempt, max)), Some(attempt + 1), Some(max),
             Some(Max(120 - attempt * interval, 10)))

\* ------------------------------------------------------------ extraction

\* an extraction that tries assets.url before assets.video
extractVideoUrlUrlFirst(data) ==
    IF data.url # "" THEN data.url
    ELSE IF data.video # "" THEN data.video
    ELSE IF data.videosUrl # "" THEN data.videosUrl
    ELSE IF data.resultUrl # "" THEN data.resultUrl
    ELSE ""

\* "" is the code's null
extractVideoUrl(data) ==
    IF data.video # "" THEN data.video
    ELSE IF data.url # "" THEN data.url
    ELSE IF data.videosUrl # "" THEN data.videosUrl
    ELSE IF data.resultUrl # "" THEN data.resultUrl
    ELSE ""

\* -------------------------------------------------------------------- JSON

\* A JavaScript value as far as prompts need one: undefined, null, a number
\* (its digits), a string (its characters) or an object (its members, a
\* sequence of <<key, value>> with scalar values).
JValue(type, str, members) == [type |-> type, str |-> str, members |-> members]

JUndefined == JValue("undefined", <<>>, <<>>)

JString(str) == JValue("string", str, <<>>)

\* s[k], "" past either end
At(s, k) == IF k \in 1..Len(s) THEN s[k] ELSE ""

\* the result of parsing a piece of text: the value and the position after it
Parsed(value, next) == [ok |-> TRUE, value |-> value, next |-> next]

SyntaxError == [ok |-> FALSE, value |-> JUndefined, next |-> 0]

\* JSON.parse on a string, a number or null at position k (strings without
\* escapes, numbers without sign, fraction or exponent)
ParseScalar(s, k) ==
    LET Digits == {"0", "1", "2", "3", "4", "5", "6", "7", "8", "9"}
        \* the closing quote of the string that opens at k, 0 when there is none
        quotes == {c \in (k + 1)..Len(s) : s[c] = "\""}
        q == IF quotes = {} THEN 0 ELSE CHOOSE c \in quotes : \A h \in quotes : c <= h
        \* the last position of the run of digits that starts at k
        e == CHOOSE c \in k..Len(s) :
                 /\ \A d \in k..c : s[d] \in Digits
                 /\ At(s, c + 1) \notin Digits
    IN  IF At(s, k) = "\""
        THEN IF q = 0 THEN SyntaxError ELSE Parsed(JString(SubSeq(s, k + 1, q - 1)), q + 1)
        ELSE IF At(s, k) \in Digits
        THEN Parsed(JValue("number", SubSeq(s, k, e), <<>>), e + 1)
        ELSE IF SubSeq(s, k, Min(k + 3, Len(s))) = <<"n", "u", "l", "l">>
        THEN Parsed(JValue("null", <<>>, <<>>), k + 4)
        ELSE SyntaxError

RECURSIVE ParseMembers(_, _, _)
\* JSON.parse on the members of an object from position k on, up to and
\* with the closing brace
ParseMembers(s, k, members) ==
    LET Pair(key, val) ==
            IF ~key.ok \/ key.value.type # "string" \/ At(s, key.next) # ":" THEN SyntaxError
            ELSE IF ~val.ok THEN SyntaxError
            ELSE IF At(s, val.next) = ","
            THEN ParseMembers(s, val.next + 1, Append(members, <<key.value.str, val.value>>))
            ELSE IF At(s, val.next) = "}"
            THEN Parsed(JValue("object", <<>>, Append(members, <<key.value.str, val.value>>)),
                        val.next + 1)
            ELSE SyntaxError
        AfterKey(key) == Pair(key, ParseScalar(s, key.next + 1))
    IN  AfterKey(ParseScalar(s, k))

\* JSON.parse(text) for texts without nesting, arrays or inner whitespace:
\* ok is FALSE where JSON.parse throws SyntaxError
JSONparse(text) ==
    LET Whole(s, r) == IF r.ok /\ r.next = Len(s) + 1 THEN r ELSE SyntaxError
        Value(s) ==
            Whole(s, IF At(s, 1) = "{"
                     THEN IF At(s, 2) = "}" THEN Parsed(JValue("object", <<>>, <<>>), 3)
                          ELSE ParseMembers(s, 2, <<>>)
                     ELSE ParseScalar(s, 1))
    IN  Value(Trim(text))

RECURSIVE StringifyMembers(_)
StringifyMembers(members) ==
    IF members = <<>> THEN <<>>
    ELSE LET key  == Head(members)[1]
             v    == Head(members)[2]
             text == IF v.type = "string" THEN <<"\"">> \o v.str \o <<"\"">>
                     ELSE IF v.type = "number" THEN v.str
                     ELSE <<"n", "u", "l", "l">>
         IN  <<"\"">> \o key \o <<"\"", ":">> \o text
             \o (IF Len(members) = 1 THEN <<>> ELSE <<",">> \o StringifyMembers(Tail(members)))

\* JSON.stringify of an object with scalar members
Stringify(members) == <<"{">> \o StringifyMembers(members) \o <<"}">>

\* value.key: the last member of that name, undefined when there is none
\* or when value is not an object
Get(value, key) ==
    LET hits == {k \in 1..Len(value.members) : value.members[k][1] = key}
    IN  IF value.type # "object" \/ hits = {} THEN JUndefined
        ELSE value.members[CHOOSE k \in hits : \A h \in hits : h <= k][2]

\* the truthiness of a value in an if
Truthy(v) ==
    CASE v.type = "string" -> v.str # <<>>
      [] v.type = "number" -> \E k \in 1..Len(v.str) : v.str[k] # "0"
      [] v.type = "object" -> TRUE
      [] OTHER -> FALSE

\* String.prototype.toLowerCase
ToLowerCase(str) ==
    LET UpperCase ==
            <<"A", "B", "C", "D", "E", "F", "G", "H", "I", "J", "K", "L", "M",
            "N", "O", "P", "Q", "R", "S", "T", "U", "V", "W", "X", "Y", "Z">>
        LowerCase ==
            <<"a", "b", "c", "d", "e", "f", "g", "h", "i", "j", "k", "l", "m",
            "n", "o", "p", "q", "r", "s", "t", "u", "v", "w", "x", "y", "z">>
    IN  [k \in 1..Len(str) |->
            IF \E u \in 1..Len(UpperCase) : UpperCase[u] = str[k]
            THEN LowerCase[CHOOSE u \in 1..Len(UpperCase) : UpperCase[u] = str[k]]
            ELSE str[k]]

\* ------------------------------------------------------ structured prompts

\* mapCameraMovement(camera) for a string camera
mapCameraMovement(camera) ==
    LET cameraLower == ToLowerCase(camera)
    IN  IF Includes(cameraLower, <<"s", "t", "a", "t", "i", "c">>) \/ Includes(cameraLower, <<"s", "t", "i", "l", "l">>)
        THEN <<"s", "t", "a", "t", "i", "c">>
        ELSE IF Includes(cameraLower, <<"s", "l", "o", "w">>) \/ Includes(cameraLower, <<"g", "e", "n", "t", "l", "e">>)
        THEN <<"s", "l", "o", "w">>
        ELSE IF Includes(cameraLower, <<"f", "a", "s", "t">>) \/ Includes(cameraLower, <<"q", "u", "i", "c", "k">>)
        THEN <<"f", "a", "s", "t">>
        ELSE IF Includes(cameraLower, <<"d", "y", "n", "a", "m", "i", "c">>) \/ Includes(cameraLower, <<"m", "o", "v", "i", "n", "g">>)
        THEN <<"d", "y", "n", "a", "m", "i", "c">>
        ELSE <<"d", "y", "n", "a", "m", "i", "c">>

\* the catch branch of parseStructuredPrompt
PlainPrompt(prompt) ==
    [lumaPrompt |-> JString(prompt), cameraMotion |-> JUndefined,
     style |-> JUndefined, lighting |-> JUndefined]

\* parseStructuredPrompt(prompt): the try block throws when JSON.parse
\* throws, when the parsed value is null (reading .prompt of null) and when
\* its camera is not a string (camera.toLowerCase is not a function)
parseStructuredPrompt(prompt) ==
    LET Structured(parsed, structured, camera) ==
            IF ~parsed.ok \/ structured.type = "null" \/ camera.type # "string"
            THEN PlainPrompt(prompt)
            ELSE [lumaPrompt |-> Get(structured, <<"p", "r", "o", "m", "p", "t">>),
                  cameraMotion |-> JString(mapCameraMovement(camera.str)),
                  style |-> Get(structured, <<"s", "t", "y", "l", "e">>),
                  lighting |-> Get(structured, <<"l", "i", "g", "h", "t", "i", "n", "g">>)]
        Try(parsed) ==
            Structured(parsed, parsed.value,
                       Get(parsed.value, <<"c", "a", "m", "e", "r", "a">>))
    IN  Try(JSONparse(prompt))

\* the body of a request that was not built
NoStructuredRequest ==
    [prompt |-> JUndefined, loop |-> TRUE, camera_motion |-> JUndefined,
     style_preset |-> JUndefined]

\* createGeneration(prompt) of the version with structured prompts, up to
\* its fetch: the request body, or threw when building it throws
\* (style.toLowerCase on a truthy style that is not a string)
createStructuredRequest(prompt) ==
    LET Preset(styleKeywords) ==
            IF Includes(styleKeywords, <<"d", "r", "e", "a", "m", "l", "i", "k", "e">>)
               \/ Includes(styleKeywords, <<"e", "t", "h", "e", "r", "e", "a", "l">>)
            THEN JString(<<"d", "r", "e", "a", "m", "y">>)
            ELSE IF Includes(styleKeywords, <<"c", "i", "n", "e", "m", "a", "t", "i", "c">>)
            THEN JString(<<"c", "i", "n", "e", "m", "a", "t", "i", "c">>)
            ELSE JUndefined
        Request(parsedPrompt) ==
            IF Truthy(parsedPrompt.style) /\ parsedPrompt.style.type # "string"
            THEN [threw |-> TRUE, body |-> NoStructuredRequest]
            ELSE [threw |-> FALSE,
                  body |-> [prompt |-> parsedPrompt.lumaPrompt,
                            loop |-> TRUE,
                            camera_motion |-> IF Truthy(parsedPrompt.cameraMotion)
                                              THEN parsedPrompt.cameraMotion ELSE JUndefined,
                            style_preset |-> IF Truthy(parsedPrompt.style)
                                             THEN Preset(ToLowerCase(parsedPrompt.style.str))
                                             ELSE JUndefined]]
    IN  Request(parseStructuredPrompt(prompt))

\* ------------------------------------------------------ enhancement service

\* the texts of the enhancement service: the messages of its events, results
\* and Errors, and of the errors its calls throw
Messages ==
    [ \* "Dream description cannot be empty"
      emptyDescription |->
          <<"D", "r", "e", "a", "m", " ", "d", "e", "s", "c", "r", "i", "p", "t",
          "i", "o", "n", " ", "c", "a", "n", "n", "o", "t", " ", "b", "e", " ",
          "e", "m", "p", "t", "y">>,
      \* "Enhancement service not configured"
      notConfigured |->
          <<"E", "n", "h", "a", "n", "c", "e", "m", "e", "n", "t", " ", "s", "e",
          "r", "v", "i", "c", "e", " ", "n", "o", "t", " ", "c", "o", "n", "f",
          "i", "g", "u", "r", "e", "d">>,
      \* "OpenAI API key not configured"
      noApiKey |->
          <<"O", "p", "e", "n", "A", "I", " ", "A", "P", "I", " ", "k", "e", "y",
          " ", "n", "o", "t", " ", "c", "o", "n", "f", "i", "g", "u", "r", "e",
          "d">>,
      \* "Transforming dream into cinematic prompt..."
      enhancing |->
          <<"T", "r", "a", "n", "s", "f", "o", "r", "m", "i", "n", "g", " ", "d",
          "r", "e", "a", "m", " ", "i", "n", "t", "o", " ", "c", "i", "n", "e",
          "m", "a", "t", "i", "c", " ", "p", "r", "o", "m", "p", "t", ".", ".",
          ".">>,
      \* "Dream enhanced successfully!"
      enhanced |->
          <<"D", "r", "e", "a", "m", " ", "e", "n", "h", "a", "n", "c", "e", "d",
          " ", "s", "u", "c", "c", "e", "s", "s", "f", "u", "l", "l", "y", "!">>,
      \* "Failed to enhance dream description"
      failedToEnhance |->
          <<"F", "a", "i", "l", "e", "d", " ", "t", "o", " ", "e", "n", "h", "a",
          "n", "c", "e", " ", "d", "r", "e", "a", "m", " ", "d", "e", "s", "c",
          "r", "i", "p", "t", "i", "o", "n">>,
      \* "OpenAI quota exceeded or billing issue"
      quota |->
          <<"O", "p", "e", "n", "A", "I", " ", "q", "u", "o", "t", "a", " ", "e",
          "x", "c", "e", "e", "d", "e", "d", " ", "o", "r", " ", "b", "i", "l",
          "l", "i", "n", "g", " ", "i", "s", "s", "u", "e">>,
      \* "Network error - please check your connection"
      connection |->
          <<"N", "e", "t", "w", "o", "r", "k", " ", "e", "r", "r", "o", "r", " ",
          "-", " ", "p", "l", "e", "a", "s", "e", " ", "c", "h", "e", "c", "k",
          " ", "y", "o", "u", "r", " ", "c", "o", "n", "n", "e", "c", "t", "i",
          "o", "n">>,
      \* "Invalid OpenAI API key"
      invalidKey |->
          <<"I", "n", "v", "a", "l", "i", "d", " ", "O", "p", "e", "n", "A", "I",
          " ", "A", "P", "I", " ", "k", "e", "y">>,
      \* "No response from OpenAI"
      noResponse |->
          <<"N", "o", " ", "r", "e", "s", "p", "o", "n", "s", "e", " ", "f", "r",
          "o", "m", " ", "O", "p", "e", "n", "A", "I">>,
      \* "OpenAI API error: "
      apiErrorPrefix |->
          <<"O", "p", "e", "n", "A", "I", " ", "A", "P", "I", " ", "e", "r", "r",
          "o", "r", ":", " ">>,
      \* "Unknown error"
      unknownError |->
          <<"U", "n", "k", "n", "o", "w", "n", " ", "e", "r", "r", "o", "r">>,
      \* the message of the SyntaxError of completion.json()
      jsonError |->
          <<"U", "n", "e", "x", "p", "e", "c", "t", "e", "d", " ", "t", "o", "k",
          "e", "n", " ", "<", " ", "i", "n", " ", "J", "S", "O", "N">>,
      \* the message of the TypeError of data.choices[0] without choices
      noChoices |->
          <<"C", "a", "n", "n", "o", "t", " ", "r", "e", "a", "d", " ", "p", "r",
          "o", "p", "e", "r", "t", "y", " ", "'", "0", "'", " ", "o", "f", " ",
          "u", "n", "d", "e", "f", "i", "n", "e", "d">> ]

\* a value that was thrown: an Error with its message, or something else
Thrown(isError, message) == [isError |-> isError, message |-> message]

NothingThrown == Thrown(FALSE, <<>>)

\* EnhancementResult; timestamp left out
EnhancementResult(status, originalPrompt, enhancedPrompt, error) ==
    [status |-> status, originalPrompt |-> originalPrompt,
     enhancedPrompt |-> enhancedPrompt, error |-> error]

NoEnhancementResult == EnhancementResult("idle", <<>>, None, None)

\* EnhancementProgress
EnhancementProgress(status, message, progress) ==
    [status |-> status, message |-> message, progress |-> progress]

\* what fetch to the completion endpoint, and reading its body, may give:
\* kind "reject" is a rejected fetch with its Error's message; errorData is
\* the body of a non-2xx answer, {} when it does not parse; body says what
\* a 2xx answer holds: "unparsable" (json() rejects), "nochoices" (no
\* choices array), "empty" (choices is []), "content" (a first choice with
\* message.content)
Completion(kind, ok, status, errorData, body, content, message) ==
    [kind |-> kind, ok |-> ok, status |-> status, errorData |-> errorData,
     body |-> body, content |-> content, message |-> message]

NoCompletion ==
    Completion("none", FALSE, <<>>, [error |-> <<>>, message |-> <<>>], "", <<>>, <<>>)

EnhancementCallbacks == {"e1", "e2"}

\* the callbacks that throw when they are called
ThrowingCallbacks == {"c2", "e2"}

\* what a throwing callback throws
ListenerError ==
    Thrown(TRUE, <<"l", "i", "s", "t", "e", "n", "e", "r", " ", "f", "a", "i", "l", "e",
      "d">>)

EnhancementCalls == {1}

DreamDescriptions == { <<>>, <<" ", "\n">>, <<"d">>, <<" ", "d", " ">> }

ApiKeys == {"", "sk-1"}

CompletionAnswers ==
    LET \* the body {error: {message: m1}, message: m2} of a failure, <<>>
        \* for a missing message
        ErrorData(m1, m2) == [error |-> m1, message |-> m2]
        CompletionRejected(message) ==
            Completion("reject", FALSE, <<>>, ErrorData(<<>>, <<>>), "", <<>>, message)
        CompletionFailure(status, errorData) ==
            Completion("http", FALSE, status, errorData, "", <<>>, <<>>)
        CompletionOk(body, content) ==
            Completion("http", TRUE, <<"2", "0", "0">>, ErrorData(<<>>, <<>>), body,
                       content, <<>>)
    IN  { CompletionRejected(<<"N", "e", "t", "w", "o", "r", "k", " ", "r", "e", "q", "u", "e", "s",
        "t", " ", "f", "a", "i", "l", "e", "d">>),
        CompletionRejected(<<"F", "a", "i", "l", "e", "d", " ", "t", "o", " ", "f", "e", "t", "c",
        "h">>),
        CompletionFailure(<<"4", "2", "9">>, ErrorData(<<"Y", "o", "u", " ", "e", "x", "c", "e", "e", "d", "e",
        "d", " ", "y", "o", "u", "r", " ", "q", "u", "o", "t",
        "a">>, <<>>)),
        CompletionFailure(<<"4", "0", "1">>, ErrorData(<<"I", "n", "c", "o", "r", "r", "e", "c", "t", " ", "A",
        "P", "I", " ", "k", "e", "y">>, <<>>)),
        CompletionFailure(<<"5", "0", "0">>, ErrorData(<<>>, <<>>)),
        CompletionFailure(<<"5", "0", "3">>, ErrorData(<<>>, <<"b", "u", "s", "y">>)),
        CompletionOk("unparsable", <<>>),
        CompletionOk("nochoices", <<>>),
        CompletionOk("empty", <<>>),
        CompletionOk("content", <<" ", "\n">>),
        CompletionOk("content", <<" ", "P", "\n">>),
        CompletionOk("content", Stringify(<< <<<<"p", "r", "o", "m", "p", "t">>, JString(<<"P">>)>> >>)) }

\* one invocation of enhanceDream that has not started
IdleEnhancement ==
    [pc |-> "idle", dreamDescription |-> <<>>, apiKey |-> "",
     answer |-> NoCompletion, result |-> NoEnhancementResult,
     thrown |-> NothingThrown,
     \* fetches issued, the statuses published, and the calls of
     \* listeners made: <<callback, status>>
     fetches |-> 0, published |-> <<>>, delivered |-> <<>>,
     \* the listeners that were registered at each publication, in the
     \* order of the listener list: <<callback, status>>
     registered |-> <<>>]

RECURSIVE Deliver(_, _, _)
\* this.listeners.forEach((listener) => listener(progress)): the listeners
\* of list are called in order; the first that throws ends the loop
Deliver(list, progress, calls) ==
    IF list = <<>> THEN [calls |-> calls, threw |-> FALSE]
    ELSE IF Head(list) \in ThrowingCallbacks
    THEN [calls |-> Append(calls, <<Head(list), progress.status>>), threw |-> TRUE]
    ELSE Deliver(Tail(list), progress, Append(calls, <<Head(list), progress.status>>))

\* ErrorMessageOf with the fixed message in place of error.message
ErrorMessageOfGeneric(thrown) ==
    IF ~thrown.isError THEN Messages.failedToEnhance
    ELSE IF Includes(thrown.message, <<"q", "u", "o", "t", "a">>) \/ Includes(thrown.message, <<"b", "i", "l", "l", "i", "n", "g">>)
    THEN Messages.quota
    ELSE IF Includes(thrown.message, <<"n", "e", "t", "w", "o", "r", "k">>) \/ Includes(thrown.message, <<"f", "e", "t", "c", "h">>)
    THEN Messages.connection
    ELSE IF Includes(thrown.message, <<"A", "P", "I", " ", "k", "e", "y">>)
    THEN Messages.invalidKey
    ELSE Messages.failedToEnhance

\* the generator's forEach without its try/catch
DeliverGuardedNoCatch(list, progress, calls) == Deliver(list, progress, calls)

RECURSIVE DeliverGuarded(_, _, _)
\* this.progressListeners.forEach((listener) => { try { listener(progress) }
\* catch (error) { console.warn(...) } }): the listeners of list are called
\* in order; what one throws is caught and logged and the loop goes on
DeliverGuarded(list, progress, calls) ==
    IF list = <<>> THEN [calls |-> calls, threw |-> FALSE]
    ELSE DeliverGuarded(Tail(list), progress, Append(calls, <<Head(list), progress.status>>))

\* the errorMessage the catch block of enhanceDream derives
ErrorMessageOf(thrown) ==
    IF ~thrown.isError THEN Messages.failedToEnhance
    ELSE IF Includes(thrown.message, <<"q", "u", "o", "t", "a">>) \/ Includes(thrown.message, <<"b", "i", "l", "l", "i", "n", "g">>)
    THEN Messages.quota
    ELSE IF Includes(thrown.message, <<"n", "e", "t", "w", "o", "r", "k">>) \/ Includes(thrown.message, <<"f", "e", "t", "c", "h">>)
    THEN Messages.connection
    ELSE IF Includes(thrown.message, <<"A", "P", "I", " ", "k", "e", "y">>)
    THEN Messages.invalidKey
    ELSE thrown.message

\* ------------------------------------------------------------------- state

VARIABLES
    jobs,               \* per invocation of generateVideo: its locals and its position
    created,            \* DreamVideoGenerator objects constructed so far: 1..created
    progressListeners,  \* per generator: this.progressListeners
    maxPollAttempts,    \* per generator: this.maxPollAttempts
    pollInterval,       \* per generator: this.pollInterval
    globalGenerator,    \* the module-level globalGenerator, 0 when null
    unsubscribers,      \* the unsubscribe closures the generators handed out, in
                        \* the order of the onProgress calls: the generator and
                        \* callback each closes over, and how often it was called
    watching,           \* <<generator, callback>> subscribed through
                        \* onVideoGenerationProgress and not unsubscribed since
    received,           \* per callback and invocation: the events it was called with
    extraction,         \* one call of extractVideoUrl: its argument and what it returned
    submission,         \* one call of the createGeneration that parses structured
                        \* prompts: its argument and the request it built
    apiKey,             \* DreamEnhancementService: this.apiKey
    listeners,          \* DreamEnhancementService: this.listeners
    listenerHandles,    \* the unsubscribe closures the service handed out, in the
                        \* order of the onProgress calls: the callback each closes
                        \* over, and how often it was called
    enhancements,       \* per invocation of enhanceDream: its locals and its position
    delivery,           \* the last direct call of notifyProgress: the listeners it
                        \* invoked, and whether one of them was no longer registered
    record              \* the Record screen: its React state, the values its last
                        \* render closed over, and the pipelines it started

vars ==
    <<jobs, created, progressListeners, maxPollAttempts, pollInterval,
      globalGenerator, unsubscribers, watching, received, extraction,
      submission, apiKey, listeners, listenerHandles, enhancements, delivery, record>>

\* request body of POST /generations (model, resolution, duration and
\* aspect_ratio are fixed configuration and left out)
RequestBody(prompt, keyframes) == [prompt |-> prompt, loop |-> TRUE, keyframes |-> keyframes]

Frame0(id) == [type |-> "generation", id |-> id]

NoTerminal == [kind |-> "none", reason |-> "", polledAgain |-> FALSE]

\* the GeneratedVideo of a call that has not returned
NoResult == [videoUrl |-> "", generationId |-> "", prompt |-> <<>>, extendedPrompt |-> None]

IdleJob ==
    [pc |-> "idle", gen |-> 0,
     prompt |-> <<>>, extendMode |-> FALSE, extensionPrompt |-> None,
     processedPrompt |-> <<>>, extPrompt |-> <<>>,
     createAnswer |-> NoResponse,
     generationId |-> "", extendedId |-> "", initialVideoUrl |-> "",
     stage |-> 1, attempt |-> 0, polledId |-> "",
     result |-> NoResult, error |-> NoError,
     \* what went over the network
     posts |-> <<>>, nGet |-> <<0, 0>>, nSleep |-> 0,
     \* what the current poll loop has seen
     lastStatus |-> NoResponse, nonTerminal |-> 0, firstTerminal |-> NoTerminal,
     \* what the invocation has published
     lastEvent |-> NoEvent, emitted |-> 0, backward |-> FALSE, terminals |-> 0,
     \* the last event of the poll loop, the last progress value published,
     \* and whether a progress value was smaller than the one before it
     lastPolled |-> NoEvent, lastProgress |-> None, decreased |-> FALSE,
     \* this.maxPollAttempts and this.pollInterval when the call started
     configAtStart |-> [maxPollAttempts |-> 0, pollInterval |-> 0],
     \* the publication of lastEvent: the listener list it found, the calls
     \* of listeners it made, <<callback, status>>, and whether an exception
     \* of a listener has left notifyProgress
     registered |-> <<>>, called |-> <<>>, escaped |-> FALSE,
     \* the subscriptions through onVideoGenerationProgress that were in
     \* place when the invocation started and have not been cancelled since
     watchers |-> {}]

\* extractVideoUrl not called
NoExtraction == [data |-> NoResponse, called |-> FALSE, url |-> ""]

\* a generator as constructed, nothing subscribed, no invocation started
InitGenerator ==
    /\ jobs = [i \in Invocations |-> IdleJob]
    /\ created = 1
    /\ progressListeners = [g \in Generators |-> <<>>]
    /\ maxPollAttempts = [g \in Generators |-> MaxPollAttempts]
    /\ pollInterval = [g \in Generators |-> PollInterval]
    /\ globalGenerator = 0
    /\ unsubscribers = <<>>
    /\ watching = {}
    /\ received = [c \in Callbacks |-> [i \in Invocations |-> 0]]
    /\ delivery = [invoked |-> <<>>, stale |-> FALSE]

\* createGeneration not called
NoSubmission == [prompt |-> <<>>, called |-> FALSE, threw |-> FALSE, body |-> NoStructuredRequest]

\* what the handlers created by a render of Record close over
Rendered(state) ==
    [isRecording |-> state.isRecording, transcribedText |-> state.transcribedText,
     isGenerating |-> state.isGenerating]

\* the Record screen after its first render: state is the React state,
\* view what the last render closed over, timer the pending setTimeout of
\* handleRecordPress, stopping the closures of the calls of stopRecording
\* that have not yet reported, runs the calls of generateVideo that passed
\* the entry guard, lumaApiKey the value of EXPO_PUBLIC_LUMA_API_KEY
IdleRecord ==
    LET Mounted(state) ==
            [state |-> state, view |-> Rendered(state), timer |-> FALSE,
             stopping |-> {}, runs |-> <<>>, lumaApiKey |-> ""]
    IN  Mounted([isRecording |-> FALSE, transcribedText |-> <<>>, isGenerating |-> FALSE,
                 videoUri |-> "null", enhancedPrompt |-> <<>>])

\* the enhancement service as constructed without a key in the
\* environment, nothing subscribed, no invocation started
InitEnhancement ==
    /\ apiKey = ""
    /\ listeners = <<>>
    /\ listenerHandles = <<>>
    /\ enhancements = [i \in EnhancementCalls |-> IdleEnhancement]
    /\ record = IdleRecord

Init ==
    /\ InitGenerator
    /\ extraction = NoExtraction
    /\ submission = NoSubmission
    /\ InitEnhancement

\* ------------------------------------------------------------ progress bus

Count(list, c) == Cardinality({k \in 1..Len(list) : list[k] = c})

\* the closure onProgress(callback) returns: what it closes over (the
\* generator, 0 for the enhancement service, and the callback), and how often
\* it has been called
Closure(g, c) == [gen |-> g, callback |-> c, calls |-> 0]

RECURSIVE Without(_, _)
\* Array.prototype.filter(listener => listener !== callback)
Without(list, c) ==
    IF list = <<>> THEN <<>>
    ELSE IF Head(list) = c THEN Without(Tail(list), c)
    ELSE <<Head(list)>> \o Without(Tail(list), c)

\* notifyProgress, once per event of evs: every listener of the generator is
\* called, in order, a throwing listener being caught and logged
notifyProgress(g, i, evs) ==
    [c \in Callbacks |->
        [k \in Invocations |->
            IF k = i THEN received[c][k] + Len(evs) * Count(progressListeners[g], c)
            ELSE received[c][k]]]

\* the order in which VideoGenerationStatus lists the statuses; the two
\* terminal statuses share the last place
StatusRank(status) ==
    CASE status = "idle" -> 0
      [] status = "starting" -> 1
      [] status = "queued" -> 2
      [] status = "generating" -> 3
      [] status \in {"completed", "error"} -> 4

TerminalStatuses == {"completed", "error"}

RECURSIVE Publish(_, _)
\* the record of what invocation j has published, after the events evs in
\* order: backward is set by an event that follows a terminal one or whose
\* status comes before its predecessor's
Publish(j, evs) ==
    IF evs = <<>> THEN j
    ELSE LET e == Head(evs)
             d == DeliverGuarded(progressListeners[j.gen], e, <<>>)
         IN  Publish([j EXCEPT !.emitted = @ + 1,
                               !.lastEvent = e,
                               !.lastPolled = IF e.attempt # None THEN e ELSE @,
                               !.lastProgress = IF e.progress # None THEN e.progress ELSE @,
                               !.decreased = \/ @
                                             \/ /\ e.progress # None
                                                /\ j.lastProgress # None
                                                /\ e.progress[1] < j.lastProgress[1],
                               !.registered = progressListeners[j.gen],
                               !.called = d.calls,
                               !.escaped = @ \/ d.threw,
                               !.backward = \/ @
                                            \/ j.lastEvent.status \in TerminalStatuses
                                            \/ StatusRank(e.status) < StatusRank(j.lastEvent.status),
                               !.terminals = IF e.status \in TerminalStatuses THEN @ + 1 ELSE @],
                     Tail(evs))

\* a segment of invocation i ends in job record j having published evs
Commit(i, j, evs) ==
    /\ jobs' = [jobs EXCEPT ![i] = Publish(j, evs)]
    /\ received' = notifyProgress(j.gen, i, evs)

\* --------------------------------------------------- generateVideo, pieces

Step(j, evs) == [j |-> j, e |-> evs]

\* a catch block that rethrows without publishing
ThrowSilent(j, evs, err) ==
    Step([j EXCEPT !.pc = "rejected", !.error = err], evs)

\* an error thrown inside generateVideo's try: the catch block publishes
\* ERROR and rethrows
Throw(j, evs, err) ==
    Step([j EXCEPT !.pc = "rejected", !.error = err], evs \o <<ErrorEvent(err)>>)

\* fetch(`${API_BASE_URL}/generations/${generationId}`)
FetchStatus(j, evs) ==
    Step([j EXCEPT !.pc = "awaitStatus", !.nGet[j.stage] = @ + 1,
                   !.firstTerminal.polledAgain = (j.firstTerminal.kind # "none")],
         evs)

\* await this.sleep(this.pollInterval)
Sleep(j, evs) == Step([j EXCEPT !.pc = "sleeping", !.nSleep = @ + 1], evs)

\* entry of pollForCompletion(id): the for loop's first test
pollForCompletion(j, evs, id, stage) ==
    LET j1 == [j EXCEPT !.stage = stage, !.attempt = 0, !.polledId = id,
                        !.lastStatus = NoResponse, !.nonTerminal = 0]
    IN  IF 0 < maxPollAttempts[j.gen] THEN FetchStatus(j1, evs)
        ELSE Throw(j1, evs, TimedOutError(maxPollAttempts[j.gen]))

\* a catch block that compares with maxPollAttempts instead of
\* maxPollAttempts - 1 and so never rethrows
PollCatchNeverSurfaces(j, evs, err) ==
    IF j.attempt = maxPollAttempts[j.gen] THEN Throw(j, evs, err)
    ELSE Sleep(j, evs)

\* the catch block inside the poll loop
PollCatch(j, evs, err) ==
    IF j.attempt = maxPollAttempts[j.gen] - 1 THEN Throw(j, evs, err)
    ELSE Sleep(j, evs)

\* an extendVideo that takes the part before the separator
extendVideoFirstPart(j, evs) ==
    LET promptToUse ==
            IF Includes(j.extPrompt, Delimiter)
            THEN OrElse(Trim(Split(j.extPrompt, Delimiter)[1]), j.extPrompt)
            ELSE j.extPrompt
    IN  Step([j EXCEPT !.pc = "awaitExtend",
                       !.posts = Append(@, RequestBody(promptToUse, Some(Frame0(j.generationId))))],
             evs)

\* extendVideo(baseGenerationId, extensionPrompt) up to its fetch
extendVideo(j, evs) ==
    LET promptToUse ==
            IF Includes(j.extPrompt, Delimiter)
            THEN OrElse(Trim(Split(j.extPrompt, Delimiter)[2]), j.extPrompt)
            ELSE j.extPrompt
    IN  Step([j EXCEPT !.pc = "awaitExtend",
                       !.posts = Append(@, RequestBody(promptToUse, Some(Frame0(j.generationId))))],
             evs)

\* a generateVideo that announces completion after each stage
PollReturnCompletesEachStage(j, evs, url) ==
    IF j.stage = 1
    THEN IF j.extendMode
         THEN extendVideo([j EXCEPT !.initialVideoUrl = url],
                          evs \o <<CompletedEvent, ExtendingEvent>>)
         ELSE Step([j EXCEPT !.pc = "resolved", !.initialVideoUrl = url,
                             !.result = [videoUrl |-> url, generationId |-> j.generationId,
                                         prompt |-> j.processedPrompt,
                                         extendedPrompt |-> None]],
                   evs \o <<CompletedEvent>>)
    ELSE Step([j EXCEPT !.pc = "resolved",
                        !.result = [videoUrl |-> url, generationId |-> j.extendedId,
                                    prompt |-> j.processedPrompt,
                                    extendedPrompt |-> Some(j.extPrompt)]],
              evs \o <<CompletedEvent>>)

\* a generateVideo that keeps finalVideoUrl and finalGenerationId of the
\* first job after the extension
PollReturnKeepsFirstJob(j, evs, url) ==
    IF j.stage = 1
    THEN IF j.extendMode
         THEN extendVideo([j EXCEPT !.initialVideoUrl = url], evs \o <<ExtendingEvent>>)
         ELSE Step([j EXCEPT !.pc = "resolved", !.initialVideoUrl = url,
                             !.result = [videoUrl |-> url, generationId |-> j.generationId,
                                         prompt |-> j.processedPrompt,
                                         extendedPrompt |-> None]],
                   evs \o <<CompletedEvent>>)
    ELSE Step([j EXCEPT !.pc = "resolved",
                        !.result = [videoUrl |-> j.initialVideoUrl,
                                    generationId |-> j.generationId,
                                    prompt |-> j.processedPrompt,
                                    extendedPrompt |-> Some(j.extPrompt)]],
              evs \o <<CompletedEvent>>)

\* a generateVideo that extends whatever extendMode says
PollReturnAlwaysExtend(j, evs, url) ==
    IF j.stage = 1
    THEN extendVideo([j EXCEPT !.initialVideoUrl = url], evs \o <<ExtendingEvent>>)
    ELSE Step([j EXCEPT !.pc = "resolved",
                        !.result = [videoUrl |-> url, generationId |-> j.extendedId,
                                    prompt |-> j.processedPrompt,
                                    extendedPrompt |-> Some(j.extPrompt)]],
              evs \o <<CompletedEvent>>)

\* pollForCompletion returned url: the rest of generateVideo's try block
PollReturn(j, evs, url) ==
    IF j.stage = 1
    THEN IF j.extendMode
         THEN extendVideo([j EXCEPT !.initialVideoUrl = url], evs \o <<ExtendingEvent>>)
         ELSE Step([j EXCEPT !.pc = "resolved", !.initialVideoUrl = url,
                             !.result = [videoUrl |-> url, generationId |-> j.generationId,
                                         prompt |-> j.processedPrompt,
                                         extendedPrompt |-> None]],
                   evs \o <<CompletedEvent>>)
    ELSE Step([j EXCEPT !.pc = "resolved",
                        !.result = [videoUrl |-> url, generationId |-> j.extendedId,
                                    prompt |-> j.processedPrompt,
                                    extendedPrompt |-> Some(j.extPrompt)]],
              evs \o <<CompletedEvent>>)

\* data.failure_reason || data.error || "Unknown error"
FailureReason(data) ==
    IF data.failure_reason # "" THEN data.failure_reason
    ELSE IF data.error # "" THEN data.error
    ELSE "Unknown error"

\* remembers the first terminal failure the invocation was told of
NoteTerminal(j, kind, reason) ==
    IF j.firstTerminal.kind = "none"
    THEN [j EXCEPT !.firstTerminal = [kind |-> kind, reason |-> reason, polledAgain |-> FALSE]]
    ELSE j

\* a loop body that returns whatever extractVideoUrl gave, null included
PollBodyNoUrlCheck(j, r) ==
    LET max  == maxPollAttempts[j.gen]
        j1   == [j EXCEPT !.lastStatus = r]
        ev   == PollEvent(r.state, j.attempt, max, pollInterval[j.gen])
        url  == extractVideoUrl(r)
    IN  IF r.kind = "reject" THEN PollCatch(j1, <<>>, NetworkError)
        ELSE IF ~r.ok THEN Sleep(j1, <<>>)
        ELSE IF r.state \in {"completed", "succeeded"}
        THEN PollReturn(j1, <<ev>>, url)
        ELSE IF r.state \in {"failed", "error"}
        THEN PollCatch(NoteTerminal(j1, "failed", FailureReason(r)), <<ev>>,
                       GenerationFailedError(FailureReason(r)))
        ELSE Sleep([j1 EXCEPT !.nonTerminal = @ + 1], <<ev>>)

\* a loop body that knows "completed" but not "succeeded"
PollBodySucceededUnknown(j, r) ==
    LET max  == maxPollAttempts[j.gen]
        j1   == [j EXCEPT !.lastStatus = r]
        ev   == PollEvent(r.state, j.attempt, max, pollInterval[j.gen])
        url  == extractVideoUrl(r)
    IN  IF r.kind = "reject" THEN PollCatch(j1, <<>>, NetworkError)
        ELSE IF ~r.ok THEN Sleep(j1, <<>>)
        ELSE IF r.state = "completed"
        THEN IF url = ""
             THEN PollCatch(NoteTerminal(j1, "noasset", ""), <<ev>>, NoVideoUrlError)
             ELSE PollReturn(j1, <<ev>>, url)
        ELSE IF r.state \in {"failed", "error"}
        THEN PollCatch(NoteTerminal(j1, "failed", FailureReason(r)), <<ev>>,
                       GenerationFailedError(FailureReason(r)))
        ELSE Sleep([j1 EXCEPT !.nonTerminal = @ + 1], <<ev>>)

\* one pass of the body of pollForCompletion's loop, from the answer r to
\* the fetch up to the next await
PollBody(j, r) ==
    LET max  == maxPollAttempts[j.gen]
        j1   == [j EXCEPT !.lastStatus = r]
        ev   == PollEvent(r.state, j.attempt, max, pollInterval[j.gen])
        url  == extractVideoUrl(r)
    IN  IF r.kind = "reject" THEN PollCatch(j1, <<>>, NetworkError)
        ELSE IF ~r.ok THEN Sleep(j1, <<>>)
        ELSE IF r.state \in {"completed", "succeeded"}
        THEN IF url = ""
             THEN PollCatch(NoteTerminal(j1, "noasset", ""), <<ev>>, NoVideoUrlError)
             ELSE PollReturn(j1, <<ev>>, url)
        ELSE IF r.state \in {"failed", "error"}
        THEN PollCatch(NoteTerminal(j1, "failed", FailureReason(r)), <<ev>>,
                       GenerationFailedError(FailureReason(r)))
        ELSE Sleep([j1 EXCEPT !.nonTerminal = @ + 1], <<ev>>)

\* a loop whose test is attempt <= maxPollAttempts
PollNextOffByOne(j) ==
    LET j1 == [j EXCEPT !.attempt = @ + 1]
    IN  IF j1.attempt <= maxPollAttempts[j.gen] THEN FetchStatus(j1, <<>>)
        ELSE Throw(j1, <<>>, TimedOutError(maxPollAttempts[j.gen]))

\* the loop's attempt++ and test after a sleep
PollNext(j) ==
    LET j1 == [j EXCEPT !.attempt = @ + 1]
    IN  IF j1.attempt < maxPollAttempts[j.gen] THEN FetchStatus(j1, <<>>)
        ELSE Throw(j1, <<>>, TimedOutError(maxPollAttempts[j.gen]))

\* a createGeneration that does not test data.id
CreateBodyNoIdCheck(j0, r) ==
    LET j == [j0 EXCEPT !.createAnswer = r]
    IN  IF r.kind = "reject" THEN Throw(j, <<>>, NetworkError)
        ELSE IF ~r.ok THEN Throw(j, <<>>, ApiError(r.status, r.body))
        ELSE pollForCompletion([j EXCEPT !.generationId = r.id], <<CreatingEvent>>, r.id, 1)

\* createGeneration after its fetch, and generateVideo up to the first
\* status fetch
CreateBody(j0, r) ==
    LET j == [j0 EXCEPT !.createAnswer = r]
    IN  IF r.kind = "reject" THEN Throw(j, <<>>, NetworkError)
        ELSE IF ~r.ok THEN Throw(j, <<>>, ApiError(r.status, r.body))
        ELSE IF r.id = "" THEN Throw(j, <<>>, MissingIdError)
        ELSE pollForCompletion([j EXCEPT !.generationId = r.id], <<CreatingEvent>>, r.id, 1)

\* extendVideo after its fetch, and generateVideo up to the first status
\* fetch of the extension
ExtendBody(j, r) ==
    IF r.kind = "reject" THEN Throw(j, <<>>, NetworkError)
    ELSE IF ~r.ok THEN Throw(j, <<>>, ApiExtendError(r.status, r.body))
    ELSE IF r.id = "" THEN Throw(j, <<>>, MissingExtensionIdError)
    ELSE pollForCompletion([j EXCEPT !.extendedId = r.id], <<>>, r.id, 2)

\* a generateVideo in which a supplied extensionPrompt wins over the text
\* after the separator
CallBodyKeepsExtension(j, g, prompt, extendMode, extensionPrompt) ==
    LET j0 == [j EXCEPT !.gen = g, !.prompt = prompt, !.extendMode = extendMode,
                        !.extensionPrompt = extensionPrompt]
        given == IF extensionPrompt = None THEN <<>> ELSE extensionPrompt[1]
        extDefault == OrElse(given, DefaultExtensionPrompt)
        splits == extendMode /\ Includes(prompt, Delimiter)
        parts == Split(prompt, Delimiter)
        processedPrompt == IF splits THEN OrElse(Trim(parts[1]), prompt) ELSE Trim(prompt)
        extPrompt == IF splits THEN OrElse(given, OrElse(Trim(parts[2]), extDefault))
                     ELSE extDefault
    IN  IF Trim(prompt) = <<>>
        THEN Step([j0 EXCEPT !.pc = "rejected", !.error = EmptyPromptError],
                  <<EmptyPromptEvent>>)
        ELSE Step([j0 EXCEPT !.pc = "awaitCreate",
                             !.processedPrompt = processedPrompt,
                             !.extPrompt = extPrompt,
                             !.posts = <<RequestBody(Trim(processedPrompt), None)>>],
                  <<StartingEvent>>)

\* a generateVideo whose validation is !prompt instead of !prompt.trim()
CallBodyNoTrim(j, g, prompt, extendMode, extensionPrompt) ==
    LET j0 == [j EXCEPT !.gen = g, !.prompt = prompt, !.extendMode = extendMode,
                        !.extensionPrompt = extensionPrompt]
        given == IF extensionPrompt = None THEN <<>> ELSE extensionPrompt[1]
        extDefault == OrElse(given, DefaultExtensionPrompt)
        splits == extendMode /\ Includes(prompt, Delimiter)
        parts == Split(prompt, Delimiter)
        processedPrompt == IF splits THEN OrElse(Trim(parts[1]), prompt) ELSE Trim(prompt)
        extPrompt == IF splits THEN OrElse(Trim(parts[2]), extDefault) ELSE extDefault
    IN  IF prompt = <<>>
        THEN Step([j0 EXCEPT !.pc = "rejected", !.error = EmptyPromptError],
                  <<EmptyPromptEvent>>)
        ELSE Step([j0 EXCEPT !.pc = "awaitCreate",
                             !.processedPrompt = processedPrompt,
                             !.extPrompt = extPrompt,
                             !.posts = <<RequestBody(Trim(processedPrompt), None)>>],
                  <<StartingEvent>>)

\* generateVideo(prompt, extendMode, extensionPrompt) on generator g, up to
\* the fetch of createGeneration
CallBody(j, g, prompt, extendMode, extensionPrompt) ==
    LET j0 == [j EXCEPT !.gen = g, !.prompt = prompt, !.extendMode = extendMode,
                        !.extensionPrompt = extensionPrompt]
        given == IF extensionPrompt = None THEN <<>> ELSE extensionPrompt[1]
        extDefault == OrElse(given, DefaultExtensionPrompt)
        splits == extendMode /\ Includes(prompt, Delimiter)
        parts == Split(prompt, Delimiter)
        processedPrompt == IF splits THEN OrElse(Trim(parts[1]), prompt) ELSE Trim(prompt)
        extPrompt == IF splits THEN OrElse(Trim(parts[2]), extDefault) ELSE extDefault
    IN  IF Trim(prompt) = <<>>
        THEN Step([j0 EXCEPT !.pc = "rejected", !.error = EmptyPromptError],
                  <<EmptyPromptEvent>>)
        ELSE Step([j0 EXCEPT !.pc = "awaitCreate",
                             !.processedPrompt = processedPrompt,
                             !.extPrompt = extPrompt,
                             !.posts = <<RequestBody(Trim(processedPrompt), None)>>],
                  <<StartingEvent>>)

\* ---------------------------------------------------- enhanceDream, pieces

\* this.notifyProgress(progress) in invocation j: what j has published and
\* which listeners were called, and whether a listener threw out of it
notifyEnhancementProgress(j, progress) ==
    LET d == Deliver(listeners, progress, j.delivered)
    IN  [j |-> [j EXCEPT !.published = Append(@, progress.status),
                         !.delivered = d.calls,
                         !.registered = @ \o [k \in 1..Len(listeners) |->
                                                  <<listeners[k], progress.status>>]],
         threw |-> d.threw]

\* return result
EnhanceReturn(j, result) == [j EXCEPT !.pc = "returned", !.result = result]

\* an exception leaves enhanceDream: its promise rejects
EnhanceReject(j, thrown) == [j EXCEPT !.pc = "rejected", !.thrown = thrown]

\* a validation failure: the ERROR result is built, the ERROR event
\* published, the result returned
EnhanceRefuse(j, error, message) ==
    LET n == notifyEnhancementProgress(j, EnhancementProgress("error", message, None))
    IN  IF n.threw THEN EnhanceReject(n.j, ListenerError)
        ELSE EnhanceReturn(n.j, EnhancementResult("error", j.dreamDescription, None, Some(error)))

\* the catch block of enhanceDream
EnhanceCatch(j, thrown) ==
    LET errorMessage == ErrorMessageOf(thrown)
        n == notifyEnhancementProgress(j, EnhancementProgress("error", errorMessage, None))
    IN  IF n.threw THEN EnhanceReject(n.j, ListenerError)
        ELSE EnhanceReturn(n.j, EnhancementResult("error", j.dreamDescription, None,
                                                  Some(errorMessage)))

\* enhanceDream(dreamDescription) up to its fetch
EnhanceCall(j0, dreamDescription) ==
    LET j == [j0 EXCEPT !.dreamDescription = dreamDescription, !.apiKey = apiKey]
        n == notifyEnhancementProgress(j, EnhancementProgress("enhancing", Messages.enhancing, Some(30)))
    IN  IF Trim(dreamDescription) = <<>>
        THEN EnhanceRefuse(j, Messages.emptyDescription, Messages.emptyDescription)
        ELSE IF apiKey = ""
        THEN EnhanceRefuse(j, Messages.noApiKey, Messages.notConfigured)
        ELSE IF n.threw THEN EnhanceCatch(n.j, ListenerError)
        ELSE [n.j EXCEPT !.pc = "awaitCompletion", !.fetches = @ + 1]

\* EnhanceAnswer without the test of rawResponse
EnhanceAnswerNoEmptyCheck(j0, r) ==
    LET j == [j0 EXCEPT !.answer = r]
        provider == OrElse(r.errorData.error, OrElse(r.errorData.message, Messages.unknownError))
        rawResponse == IF r.body = "content" THEN Trim(r.content) ELSE <<>>
        n == notifyEnhancementProgress(j, EnhancementProgress("completed", Messages.enhanced, Some(100)))
    IN  IF r.kind = "reject" THEN EnhanceCatch(j, Thrown(TRUE, r.message))
        ELSE IF ~r.ok
        THEN EnhanceCatch(j, Thrown(TRUE, Messages.apiErrorPrefix \o r.status \o <<" ", "-", " ">> \o provider))
        ELSE IF r.body = "unparsable" THEN EnhanceCatch(j, Thrown(TRUE, Messages.jsonError))
        ELSE IF r.body = "nochoices" THEN EnhanceCatch(j, Thrown(TRUE, Messages.noChoices))
        ELSE IF n.threw THEN EnhanceCatch(n.j, ListenerError)
        ELSE EnhanceReturn(n.j, EnhancementResult("completed", j.dreamDescription,
                                                  Some(rawResponse), None))

\* enhanceDream from the answer to its fetch to its end
EnhanceAnswer(j0, r) ==
    LET j == [j0 EXCEPT !.answer = r]
        provider == OrElse(r.errorData.error, OrElse(r.errorData.message, Messages.unknownError))
        rawResponse == IF r.body = "content" THEN Trim(r.content) ELSE <<>>
        n == notifyEnhancementProgress(j, EnhancementProgress("completed", Messages.enhanced, Some(100)))
    IN  IF r.kind = "reject" THEN EnhanceCatch(j, Thrown(TRUE, r.message))
        ELSE IF ~r.ok
        THEN EnhanceCatch(j, Thrown(TRUE, Messages.apiErrorPrefix \o r.status \o <<" ", "-", " ">> \o provider))
        ELSE IF r.body = "unparsable" THEN EnhanceCatch(j, Thrown(TRUE, Messages.jsonError))
        ELSE IF r.body = "nochoices" THEN EnhanceCatch(j, Thrown(TRUE, Messages.noChoices))
        ELSE IF rawResponse = <<>> THEN EnhanceCatch(j, Thrown(TRUE, Messages.noResponse))
        ELSE IF n.threw THEN EnhanceCatch(n.j, ListenerError)
        ELSE EnhanceReturn(n.j, EnhancementResult("completed", j.dreamDescription,
                                                  Some(rawResponse), None))

\* ----------------------------------------------------------------- actions

busVars == <<created, progressListeners, globalGenerator, unsubscribers, watching>>

cfgVars == <<maxPollAttempts, pollInterval>>

\* everything an invocation of generateVideo and the progress bus own
generatorVars == <<jobs, received, busVars, cfgVars>>

\* what they do not touch
\* the enhancement service and its invocations
enhancementVars == <<apiKey, listeners, listenerHandles, enhancements>>

otherVars == <<extraction, submission, enhancementVars, delivery, record>>

\* generator.generateVideo(prompt, extendMode, extensionPrompt)
generateVideo(i, g, prompt, extendMode, extensionPrompt) ==
    /\ jobs[i].pc = "idle"
    /\ g \in 1..created
    /\ LET j == [jobs[i] EXCEPT !.configAtStart =
                                    [maxPollAttempts |-> maxPollAttempts[g],
                                     pollInterval |-> pollInterval[g]]]
           s == CallBody(j, g, prompt, extendMode, extensionPrompt)
       IN  Commit(i, s.j, s.e)
    /\ UNCHANGED <<busVars, cfgVars, otherVars>>

\* the answer to createGeneration's POST arrives
createGeneration(i, r) ==
    /\ jobs[i].pc = "awaitCreate"
    /\ LET s == CreateBody(jobs[i], r) IN Commit(i, s.j, s.e)
    /\ UNCHANGED <<busVars, cfgVars, otherVars>>

\* a generator that keeps the attempt counter in a field all its
\* invocations share
pollStatusSharedAttempt(i, r) ==
    /\ jobs[i].pc = "awaitStatus"
    /\ LET shared == Max(jobs[1].attempt, jobs[2].attempt)
           s == PollBody([jobs[i] EXCEPT !.attempt = shared], r)
       IN  Commit(i, s.j, s.e)
    /\ UNCHANGED <<busVars, cfgVars, otherVars>>

\* the answer to a status GET arrives
pollStatus(i, r) ==
    /\ jobs[i].pc = "awaitStatus"
    /\ LET s == PollBody(jobs[i], r) IN Commit(i, s.j, s.e)
    /\ UNCHANGED <<busVars, cfgVars, otherVars>>

\* the timer of this.sleep fires
sleep(i) ==
    /\ jobs[i].pc = "sleeping"
    /\ LET s == PollNext(jobs[i]) IN Commit(i, s.j, s.e)
    /\ UNCHANGED <<busVars, cfgVars, otherVars>>

\* the answer to extendVideo's POST arrives
extendVideoAnswer(i, r) ==
    /\ jobs[i].pc = "awaitExtend"
    /\ LET s == ExtendBody(jobs[i], r) IN Commit(i, s.j, s.e)
    /\ UNCHANGED <<busVars, cfgVars, otherVars>>

\* ------------------------------------------------------------ Record screen

\* a generateVideo without the finally block
recordFinallyLeftOut(rec, i, uri) ==
    [rec EXCEPT !.state.videoUri = uri,
                !.state.isGenerating = (uri = "placeholder"),
                !.runs[i].pc = "done"]

\* the end of Record.generateVideo: setVideoUri in the try or the catch
\* block, then setIsGenerating(false) in the finally block
recordFinally(rec, i, uri) ==
    [rec EXCEPT !.state.videoUri = uri,
                !.state.isGenerating = FALSE,
                !.runs[i].pc = "done"]

\* Record.generateVideo() as created by the render that closed over
\* closure, up to the await of enhanceDream
recordGenerateVideo(rec, closure) ==
    IF Trim(closure.transcribedText) = <<>> \/ closure.isGenerating THEN rec
    ELSE [rec EXCEPT !.state.isGenerating = TRUE,
                     !.state.videoUri = "null",
                     !.state.enhancedPrompt = <<>>,
                     !.runs = Append(@, [pc |-> "enhanceDream",
                                         transcribedText |-> closure.transcribedText,
                                         enhancement |-> NoEnhancementResult,
                                         promptToUse |-> <<>>,
                                         generated |-> FALSE,
                                         videoUrl |-> ""])]

\* the send button, enabled by the last render
handleSendPress ==
    /\ Trim(record.view.transcribedText) # <<>>
    /\ ~record.view.isGenerating
    /\ Len(record.runs) < MaxRuns
    /\ record' = recordGenerateVideo(record, record.view)
    /\ UNCHANGED <<generatorVars, extraction, submission, enhancementVars, delivery>>

\* the record button, enabled by the last render; it is pressed when no
\* earlier stopRecording is still under way
handleRecordPress ==
    /\ ~record.view.isGenerating
    /\ record.stopping = {}
    /\ record' = IF ~record.view.isRecording
                 THEN [record EXCEPT !.state.videoUri = "null",
                                     !.state.transcribedText = <<>>,
                                     !.state.enhancedPrompt = <<>>,
                                     !.timer = TRUE]
                 ELSE [record EXCEPT !.state.isRecording = FALSE]
    /\ UNCHANGED <<generatorVars, extraction, submission, enhancementVars, delivery>>

\* setTimeout(() => setIsRecording(true), 150) fires
recordTimer ==
    /\ record.timer
    /\ record' = [record EXCEPT !.timer = FALSE, !.state.isRecording = TRUE]
    /\ UNCHANGED <<generatorVars, extraction, submission, enhancementVars, delivery>>

\* the recognizer reports text while recording
handleTranscriptionUpdate(text) ==
    /\ record.view.isRecording
    /\ record' = [record EXCEPT !.state.transcribedText = text]
    /\ UNCHANGED <<generatorVars, extraction, submission, enhancementVars, delivery>>

\* React renders Record again: the handlers close over the current state,
\* and the effect of VoiceRecorder on [isRecording] calls stopRecording with
\* the handleRecordingComplete of this render when isRecording has become
\* false (startRecording reports true, on which handleRecordingComplete
\* does nothing)
render ==
    /\ record.view # Rendered(record.state)
    /\ record' = [record EXCEPT
                     !.view = Rendered(record.state),
                     !.stopping = IF record.view.isRecording /\ ~record.state.isRecording
                                  THEN @ \cup {Rendered(record.state)}
                                  ELSE @]
    /\ UNCHANGED <<generatorVars, extraction, submission, enhancementVars, delivery>>

\* stopRecording, after its awaits, calls onRecordingStateChange(false):
\* handleRecordingComplete(false) of the render that started it
stopRecording(closure) ==
    /\ closure \in record.stopping
    /\ Len(record.runs) < MaxRuns
    /\ record' = recordGenerateVideo([record EXCEPT !.stopping = @ \ {closure}], closure)
    /\ UNCHANGED <<generatorVars, extraction, submission, enhancementVars, delivery>>

\* a generateVideo that gives up when the enhancement failed
enhanceDreamReturnsAborts(i, result) ==
    /\ i \in 1..Len(record.runs)
    /\ record.runs[i].pc = "enhanceDream"
    /\ result.originalPrompt = record.runs[i].transcribedText
    /\ LET enhanced == result.status # "error" /\ OrElse(result.enhancedPrompt, <<>>) # <<>>
           promptToUse ==
               IF enhanced THEN result.enhancedPrompt[1] ELSE record.runs[i].transcribedText
           rec == [record EXCEPT
                     !.runs[i].enhancement = result,
                     !.runs[i].promptToUse = promptToUse,
                     !.state.enhancedPrompt = IF enhanced THEN promptToUse ELSE @]
       IN  record' = IF record.lumaApiKey = "" \/ result.status = "error"
                     THEN recordFinally(rec, i, "placeholder")
                     ELSE [rec EXCEPT !.runs[i].pc = "generateDreamVideoWithProgress",
                                      !.runs[i].generated = TRUE]
    /\ UNCHANGED <<generatorVars, extraction, submission, enhancementVars, delivery>>

\* enhanceDream(transcribedText) returns result to run i, which goes on to
\* the await of generateDreamVideoWithProgress, or into the catch block
\* when no Luma key is configured
enhanceDreamReturns(i, result) ==
    /\ i \in 1..Len(record.runs)
    /\ record.runs[i].pc = "enhanceDream"
    /\ result.originalPrompt = record.runs[i].transcribedText
    /\ LET enhanced == result.status # "error" /\ OrElse(result.enhancedPrompt, <<>>) # <<>>
           promptToUse ==
               IF enhanced THEN result.enhancedPrompt[1] ELSE record.runs[i].transcribedText
           rec == [record EXCEPT
                     !.runs[i].enhancement = result,
                     !.runs[i].promptToUse = promptToUse,
                     !.state.enhancedPrompt = IF enhanced THEN promptToUse ELSE @]
       IN  record' = IF record.lumaApiKey = ""
                     THEN recordFinally(rec, i, "placeholder")
                     ELSE [rec EXCEPT !.runs[i].pc = "generateDreamVideoWithProgress",
                                      !.runs[i].generated = TRUE]
    /\ UNCHANGED <<generatorVars, extraction, submission, enhancementVars, delivery>>

\* generateDreamVideoWithProgress(promptToUse, lumaApiKey) settles for run
\* i: videoUrl is the URL it resolved with, "" when it rejected
generateDreamVideoSettles(i, videoUrl) ==
    /\ i \in 1..Len(record.runs)
    /\ record.runs[i].pc = "generateDreamVideoWithProgress"
    /\ record' = recordFinally([record EXCEPT !.runs[i].videoUrl = videoUrl], i,
                               IF videoUrl # "" THEN videoUrl ELSE "placeholder")
    /\ UNCHANGED <<generatorVars, extraction, submission, enhancementVars, delivery>>

\* generator.updateConfig(config); a field of config that is left out is 0,
\* which the truthiness tests skip as they skip undefined
updateConfig(g, config) ==
    /\ g \in 1..created
    /\ pollInterval' = [pollInterval EXCEPT ![g] =
                            IF config.pollInterval # 0 THEN config.pollInterval ELSE @]
    /\ maxPollAttempts' = [maxPollAttempts EXCEPT ![g] =
                               IF config.maxPollAttempts # 0 THEN config.maxPollAttempts ELSE @]
    /\ UNCHANGED <<jobs, received, busVars, otherVars>>

RECURSIVE forEach(_, _, _, _)
\* this.progressListeners.forEach(...) inside notifyProgress, from the k-th
\* entry on: the array the loop walks is the one that was the field's value
\* when notifyProgress was entered, while an unsubscribe closure called by a
\* listener assigns a filtered copy to the field. does[k] is the closure the
\* k-th listener calls when it is invoked, 0 when it calls none.
forEach(array, k, does, st) ==
    IF k > Len(array) THEN st
    ELSE LET c == array[k]
             h == does[k]
             invoked == [st EXCEPT !.invoked = Append(@, c),
                                   !.stale = @ \/ Count(st.field, c) = 0]
         IN  forEach(array, k + 1, does,
                     IF h = 0 THEN invoked
                     ELSE [invoked EXCEPT !.field = Without(@, st.closures[h].callback),
                                          !.closures[h].calls = @ + 1])

\* generator.notifyProgress(progress) with listeners that may unsubscribe
\* a listener of the same generator
publish(g) ==
    /\ g \in 1..created
    /\ progressListeners[g] # <<>>
    /\ \E does \in [1..Len(progressListeners[g]) -> 0..Len(unsubscribers)] :
           /\ \A k \in DOMAIN does :
                  does[k] # 0 => /\ unsubscribers[does[k]].gen = g
                                 /\ unsubscribers[does[k]].calls < MaxCalls
           /\ LET st == forEach(progressListeners[g], 1, does,
                                [field |-> progressListeners[g], closures |-> unsubscribers,
                                 invoked |-> <<>>, stale |-> FALSE])
                  gone == {<<g, c>> : c \in {c \in Callbacks : Count(st.field, c) = 0}}
              IN  /\ progressListeners' = [progressListeners EXCEPT ![g] = st.field]
                  /\ unsubscribers' = st.closures
                  /\ delivery' = [invoked |-> st.invoked, stale |-> st.stale]
                  /\ watching' = watching \ gone
                  /\ jobs' = [i \in Invocations |-> [jobs[i] EXCEPT !.watchers = @ \ gone]]
    /\ UNCHANGED <<created, globalGenerator, received, cfgVars, extraction, submission,
                   enhancementVars, record>>

\* generator.onProgress(callback)
onProgress(g, c) ==
    /\ g \in 1..created
    /\ Count(progressListeners[g], c) < MaxListeners
    /\ Len(unsubscribers) < MaxSubscriptions
    /\ progressListeners' = [progressListeners EXCEPT ![g] = Append(@, c)]
    /\ unsubscribers' = Append(unsubscribers, Closure(g, c))
    /\ UNCHANGED <<jobs, created, globalGenerator, watching, received, cfgVars, otherVars>>

\* the closure that the h-th call of onProgress returned is called
unsubscribe(h) ==
    /\ h \in 1..Len(unsubscribers)
    /\ unsubscribers[h].calls < MaxCalls
    /\ LET g == unsubscribers[h].gen
           c == unsubscribers[h].callback
       IN  /\ progressListeners' = [progressListeners EXCEPT ![g] = Without(@, c)]
           /\ watching' = watching \ {<<g, c>>}
           /\ jobs' = [i \in Invocations |-> [jobs[i] EXCEPT !.watchers = @ \ {<<g, c>>}]]
    /\ unsubscribers' = [unsubscribers EXCEPT ![h].calls = @ + 1]
    /\ UNCHANGED <<created, globalGenerator, received, cfgVars, otherVars>>

\* onVideoGenerationProgress(callback): subscribes on globalGenerator,
\* constructing a temporary one when there is none
onVideoGenerationProgress(c) ==
    LET g == IF globalGenerator = 0 THEN created + 1 ELSE globalGenerator
    IN  /\ g \in Generators
        /\ Count(progressListeners[g], c) < MaxListeners
        /\ Len(unsubscribers) < MaxSubscriptions
        /\ created' = IF globalGenerator = 0 THEN created + 1 ELSE created
        /\ globalGenerator' = g
        /\ progressListeners' = [progressListeners EXCEPT ![g] = Append(@, c)]
        /\ unsubscribers' = Append(unsubscribers, Closure(g, c))
        /\ watching' = watching \cup {<<g, c>>}
        /\ UNCHANGED <<jobs, received, cfgVars, otherVars>>

\* generateDreamVideoWithProgress(prompt, apiKey, extendMode): constructs a
\* generator, stores it in globalGenerator and calls its generateVideo
generateDreamVideoWithProgress(i, prompt, extendMode) ==
    LET g == created + 1
        s == CallBody([jobs[i] EXCEPT !.watchers = watching],
                      g, prompt, extendMode, None)
    IN  /\ jobs[i].pc = "idle"
        /\ g \in Generators
        /\ created' = g
        /\ globalGenerator' = g
        /\ Commit(i, s.j, s.e)
        /\ UNCHANGED <<progressListeners, unsubscribers, watching, cfgVars, otherVars>>

\* this.extractVideoUrl(data)
extractVideoUrlCall ==
    /\ ~extraction.called
    /\ extraction' = [extraction EXCEPT !.called = TRUE, !.url = extractVideoUrl(extraction.data)]
    /\ UNCHANGED <<generatorVars, submission, enhancementVars, delivery, record>>

\* this.createGeneration(prompt), in the version that parses structured
\* prompts, up to its fetch
createGenerationStructured ==
    /\ ~submission.called
    /\ LET r == createStructuredRequest(submission.prompt)
       IN  submission' = [submission EXCEPT !.called = TRUE, !.threw = r.threw,
                                            !.body = r.body]
    /\ UNCHANGED <<generatorVars, extraction, enhancementVars, delivery, record>>

\* dreamEnhancementService.setApiKey(apiKey)
setApiKey(key) ==
    /\ apiKey' = key
    /\ UNCHANGED <<generatorVars, extraction, submission, delivery, record, listeners, listenerHandles,
                   enhancements>>

\* onEnhancementProgress(callback): dreamEnhancementService.onProgress
onEnhancementProgress(c) ==
    /\ Count(listeners, c) < MaxListeners
    /\ Len(listenerHandles) < MaxSubscriptions
    /\ listeners' = Append(listeners, c)
    /\ listenerHandles' = Append(listenerHandles, Closure(0, c))
    /\ UNCHANGED <<generatorVars, extraction, submission, delivery, record, apiKey, enhancements>>

\* the closure that the h-th call of the service's onProgress returned is
\* called
unsubscribeEnhancement(h) ==
    /\ h \in 1..Len(listenerHandles)
    /\ listenerHandles[h].calls < MaxCalls
    /\ listeners' = Without(listeners, listenerHandles[h].callback)
    /\ listenerHandles' = [listenerHandles EXCEPT ![h].calls = @ + 1]
    /\ UNCHANGED <<generatorVars, extraction, submission, delivery, record, apiKey, enhancements>>

\* enhanceDream(dreamDescription)
enhanceDream(i, dreamDescription) ==
    /\ enhancements[i].pc = "idle"
    /\ enhancements' = [enhancements EXCEPT ![i] = EnhanceCall(@, dreamDescription)]
    /\ UNCHANGED <<generatorVars, extraction, submission, delivery, record, apiKey, listeners, listenerHandles>>

\* the answer to enhanceDream's fetch arrives
fetchCompletion(i, r) ==
    /\ enhancements[i].pc = "awaitCompletion"
    /\ enhancements' = [enhancements EXCEPT ![i] = EnhanceAnswer(@, r)]
    /\ UNCHANGED <<generatorVars, extraction, submission, delivery, record, apiKey, listeners, listenerHandles>>

\* ---------------------------------------------------------- specifications

\* One invocation of generateVideo on one generator, every input and every
\* answer of the generation service.
Next ==
    \/ \E p \in Prompts, e \in BOOLEAN, x \in ExtensionPrompts : generateVideo(1, 1, p, e, x)
    \/ \E r \in CreateResponses : createGeneration(1, r)
    \/ \E r \in StatusResponses : pollStatus(1, r)
    \/ sleep(1)
    \/ \E r \in CreateResponses : extendVideoAnswer(1, r)

Spec == Init /\ [][Next]_vars

BusStatusResponses ==
    { Status("queued", "", "", "", "", "", ""),
      Status("completed", "", "https://x/video.mp4", "", "", "", "") }

\* The module-level helpers: a listener subscribed through
\* onVideoGenerationProgress, generations started through
\* generateDreamVideoWithProgress, two of them overlapping.
NextBus ==
    \/ onVideoGenerationProgress("c1")
    \/ \E i \in Invocations, p \in { <<" ">>, <<"A">> } : generateDreamVideoWithProgress(i, p, FALSE)
    \/ \E i \in Invocations, r \in { HttpFailure(500, ""), Created("g1") } : createGeneration(i, r)
    \/ \E i \in Invocations, r \in BusStatusResponses : pollStatus(i, r)
    \/ \E i \in Invocations : sleep(i)
    \/ \E h \in 1..MaxSubscriptions : unsubscribe(h)

SpecBus == Init /\ [][NextBus]_vars

\* One generation on a generator whose listeners come and go, some of
\* which throw.
NextListeners ==
    \/ \E c \in Callbacks : onProgress(1, c)
    \/ \E h \in 1..MaxSubscriptions : unsubscribe(h)
    \/ \E p \in { <<" ">>, <<"A">> } : generateVideo(1, 1, p, FALSE, None)
    \/ \E r \in { HttpFailure(500, ""), Created("g1") } : createGeneration(1, r)
    \/ \E r \in BusStatusResponses : pollStatus(1, r)
    \/ sleep(1)

SpecListeners == Init /\ [][NextListeners]_vars

\* Listeners of one generator that come and go, also from inside a
\* listener while an event is being published.
NextReentrant ==
    \/ \E c \in Callbacks : onProgress(1, c)
    \/ \E h \in 1..MaxSubscriptions : unsubscribe(h)
    \/ publish(1)

SpecReentrant == Init /\ [][NextReentrant]_vars

\* what enhanceDream returns to the screen: an ERROR result, or a COMPLETED
\* one with the enhanced prompt
RecordEnhancements ==
    { EnhancementResult("error", <<"T">>, None, Some(Messages.failedToEnhance)),
      EnhancementResult("completed", <<"T">>, Some(<<"E">>), None) }

InitRecord ==
    /\ InitGenerator
    /\ extraction = NoExtraction
    /\ submission = NoSubmission
    /\ apiKey = ""
    /\ listeners = <<>>
    /\ listenerHandles = <<>>
    /\ enhancements = [i \in EnhancementCalls |-> IdleEnhancement]
    /\ record \in {[IdleRecord EXCEPT !.lumaApiKey = k] : k \in {"", "luma-key"}}

\* The Record screen: recording, transcription, the send button, renders,
\* and the pipelines of enhancement and generation they start.
NextRecord ==
    \/ handleRecordPress
    \/ recordTimer
    \/ \E text \in {<<"T">>} : handleTranscriptionUpdate(text)
    \/ render
    \/ \E closure \in record.stopping : stopRecording(closure)
    \/ handleSendPress
    \/ \E i \in 1..MaxRuns, result \in RecordEnhancements : enhanceDreamReturns(i, result)
    \/ \E i \in 1..MaxRuns, videoUrl \in {"", "https://x/video.mp4"} :
           generateDreamVideoSettles(i, videoUrl)

SpecRecord == InitRecord /\ [][NextRecord]_vars

\* The Record screen when React renders every pending update and every
\* awaited promise settles.
SpecRecordLive ==
    /\ SpecRecord
    /\ WF_vars(render)
    /\ WF_vars(\E i \in 1..MaxRuns, result \in RecordEnhancements :
                   enhanceDreamReturns(i, result))
    /\ WF_vars(\E i \in 1..MaxRuns, videoUrl \in {"", "https://x/video.mp4"} :
                   generateDreamVideoSettles(i, videoUrl))

\* the id the generation service gives the job of invocation i
JobId(i) == IF i = 1 THEN "g1" ELSE "g2"

\* the asset the service renders for job id
JobUrl(id) == IF id = "g1" THEN "https://x/g1.mp4" ELSE "https://x/g2.mp4"

\* Two invocations of generateVideo on the same generator, their requests
\* and sleeps interleaved; the service answers each GET for the job it names.
NextConcurrent ==
    \/ \E i \in Invocations : generateVideo(i, 1, <<"A">>, FALSE, None)
    \/ \E i \in Invocations : createGeneration(i, Created(JobId(i)))
    \/ \E i \in Invocations :
           \E r \in { HttpFailure(500, "oops"),
                      Status("queued", "", "", "", "", "", ""),
                      Status("completed", "", JobUrl(jobs[i].polledId), "", "", "", "") } :
               pollStatus(i, r)
    \/ \E i \in Invocations : sleep(i)

SpecConcurrent == Init /\ [][NextConcurrent]_vars

\* One generation on a generator whose configuration is updated while the
\* generation runs.
NextConfig ==
    \/ generateVideo(1, 1, <<"A">>, FALSE, None)
    \/ createGeneration(1, Created("g1"))
    \/ \E r \in { NetworkFailure,
                  Status("processing", "", "", "", "", "", ""),
                  Status("completed", "", "https://x/video.mp4", "", "", "", "") } :
           pollStatus(1, r)
    \/ sleep(1)
    \/ \E config \in [pollInterval : {0, 60}, maxPollAttempts : {0, 1, 7, 9}] :
           updateConfig(1, config)

SpecConfig == Init /\ [][NextConfig]_vars

\* One extended or plain generation that meets no failure, for every prompt
\* of PromptCases and every extension prompt of ExtensionCases.
NextPrompt ==
    \/ \E p \in PromptCases, e \in BOOLEAN, x \in ExtensionCases : generateVideo(1, 1, p, e, x)
    \/ createGeneration(1, Created("g1"))
    \/ pollStatus(1, Status("completed", "", "https://x/video.mp4", "", "", "", ""))
    \/ extendVideoAnswer(1, Created("g2"))

SpecPrompt == Init /\ [][NextPrompt]_vars

\* the completed status answers extractVideoUrl may be handed: every
\* combination of populated and missing URL fields
ExtractionInputs ==
    { Status("completed", v, u, w, r, "", "") :
        v \in {"", "v1", "v2"}, u \in {"", "u1", "u2"},
        w \in {"", "w1", "w2"}, r \in {"", "r1", "r2"} }

InitExtract ==
    /\ InitGenerator
    /\ submission = NoSubmission
    /\ InitEnhancement
    /\ extraction \in {[NoExtraction EXCEPT !.data = d] : d \in ExtractionInputs}

\* extractVideoUrl applied once to each status answer of ExtractionInputs.
SpecExtract == InitExtract /\ [][extractVideoUrlCall]_vars

\* a member of an object to stringify, nothing when the value is undefined
Member(key, value) == IF value = JUndefined THEN <<>> ELSE << <<key, value>> >>

\* the texts GPT may answer as JSON: objects in which each of prompt,
\* camera, style and lighting is missing or holds a value
StructuredTexts ==
    { Stringify(Member(<<"p", "r", "o", "m", "p", "t">>, p) \o Member(<<"c", "a", "m", "e", "r", "a">>, c)
                \o Member(<<"s", "t", "y", "l", "e">>, y) \o Member(<<"l", "i", "g", "h", "t", "i", "n", "g">>, l)) :
        p \in {JUndefined, JString(<<"P">>), JString(<<>>)},
        c \in {JUndefined, JString(<<"S", "l", "o", "w">>), JString(<<"p", "a", "n">>), JValue("number", <<"7">>, <<>>)},
        y \in {JUndefined, JString(<<"C", "i", "n", "e", "m", "a", "t", "i", "c">>), JValue("number", <<"7">>, <<>>)},
        l \in {JUndefined, JString(<<"d", "i", "m">>)} }

\* texts that are not objects: plain words, a broken object, and JSON
\* that is a scalar
PlainTexts ==
    { <<"a", " ", "d", "r", "e", "a", "m">>,
      <<"{", "o", "o", "p", "s">>,
      <<"n", "u", "l", "l">>,
      <<"4", "2">>,
      <<"\"", "q", "\"">> }

InitStructured ==
    /\ InitGenerator
    /\ extraction = NoExtraction
    /\ InitEnhancement
    /\ submission \in {[NoSubmission EXCEPT !.prompt = t] : t \in StructuredTexts \cup PlainTexts}

\* The createGeneration that parses structured prompts, applied once to
\* each text of StructuredTexts and PlainTexts.
SpecStructured == InitStructured /\ [][createGenerationStructured]_vars

\* One invocation of enhanceDream on the enhancement service, with
\* listeners that come and go, some of which throw, and every answer of
\* the completion endpoint.
NextEnhance ==
    \/ \E k \in ApiKeys : setApiKey(k)
    \/ \E c \in EnhancementCallbacks : onEnhancementProgress(c)
    \/ \E h \in 1..MaxSubscriptions : unsubscribeEnhancement(h)
    \/ \E i \in EnhancementCalls, d \in DreamDescriptions : enhanceDream(i, d)
    \/ \E i \in EnhancementCalls, r \in CompletionAnswers : fetchCompletion(i, r)

SpecEnhance == Init /\ [][NextEnhance]_vars

\* ------------------------------------------------------------------ claims

Started(j) == j.pc # "idle"

Polling(j) == j.pc \in {"awaitStatus", "sleeping"}

OnlyWhitespace(str) == \A k \in 1..Len(str) : str[k] \in Whitespace

TransientFailure(r) == r.kind = "reject" \/ (r.kind = "http" /\ ~r.ok)

TerminalSuccess(r) == r.kind = "http" /\ r.ok /\ r.state \in {"completed", "succeeded"}

PopulatedUrls(r) == {r.video, r.url, r.videosUrl, r.resultUrl} \ {""}

\* the loop index at which the last status answer was handled
AnsweredAttempt(j) ==
    IF j.pc = "awaitStatus" \/ j.attempt = maxPollAttempts[j.gen]
    THEN j.attempt - 1 ELSE j.attempt

\* what the last call of pollForCompletion returned
PolledUrl(j) == IF j.stage = 1 THEN j.initialVideoUrl ELSE j.result.videoUrl

\* C1: once a status GET has answered "failed" or "error", the invocation
\* has failed with an error whose message carries the failure reason, and no
\* status GET was issued after that answer.
C1_FailedStatusEndsPolling ==
    \A i \in Invocations :
        LET j == jobs[i]
        IN  j.firstTerminal.kind = "failed" =>
                /\ j.pc = "rejected"
                /\ j.error = GenerationFailedError(j.firstTerminal.reason)
                /\ ~j.firstTerminal.polledAgain

\* C2: a run of pollForCompletion issues one GET per loop iteration and at
\* most maxPollAttempts of them; the loop is over once the last allowed
\* attempt has been answered and slept on; when maxPollAttempts answers
\* were all non-terminal the run has failed with the timed-out error after
\* exactly maxPollAttempts GETs.
C2_PollBounded ==
    \A i \in Invocations :
        LET j   == jobs[i]
            max == maxPollAttempts[j.gen]
        IN  Started(j) =>
                /\ j.nGet[1] <= max /\ j.nGet[2] <= max
                /\ Polling(j) => (j.attempt < max /\ j.nGet[j.stage] = j.attempt + 1)
                /\ (j.nonTerminal = max /\ j.pc # "sleeping") =>
                       (j.pc = "rejected" /\ j.error = TimedOutError(max)
                        /\ j.nGet[j.stage] = max)
                /\ j.error = TimedOutError(max) => j.nGet[j.stage] = max

C2_Witness ==
    \E i \in Invocations :
        /\ jobs[i].pc = "rejected"
        /\ jobs[i].nonTerminal = maxPollAttempts[jobs[i].gen]
        /\ jobs[i].error = TimedOutError(maxPollAttempts[jobs[i].gen])

\* C3: when the first k-1 answers of a poll run were non-terminal states and
\* the k-th reports completed or succeeded with a video URL, the run has
\* returned a URL of that answer after exactly k GETs (k = 1: one GET).
C3_CompletedReturnsUrl ==
    \A i \in Invocations :
        LET j == jobs[i]
            r == j.lastStatus
        IN  (Started(j) /\ TerminalSuccess(r) /\ PopulatedUrls(r) # {}
             /\ j.nonTerminal = j.attempt) =>
                /\ ~Polling(j)
                /\ PolledUrl(j) \in PopulatedUrls(r)
                /\ j.nGet[j.stage] = j.nonTerminal + 1

C3_Witness ==
    \E i \in Invocations :
        /\ jobs[i].pc = "resolved"
        /\ jobs[i].nonTerminal = 2
        /\ jobs[i].nGet[1] = 3
        /\ jobs[i].lastStatus.state = "completed"
        /\ jobs[i].result.videoUrl = "https://x/video.mp4"

\* C4 as stated: a transient status-check failure before the last allowed
\* attempt leaves the loop polling; on the last allowed attempt the
\* invocation fails with that failure itself (not with the timed-out error).
C4_TransientSurfacedOnLastAttempt ==
    \A i \in Invocations :
        LET j   == jobs[i]
            max == maxPollAttempts[j.gen]
        IN  (Started(j) /\ TransientFailure(j.lastStatus)) =>
                IF AnsweredAttempt(j) < max - 1
                THEN Polling(j)
                ELSE /\ j.pc = "rejected"
                     /\ j.error # TimedOutError(max)
                     /\ j.lastStatus.kind = "reject" => j.error = NetworkError

\* C4 as amended: a transient status-check failure before the last allowed
\* attempt leaves the loop polling and the next GET follows the sleep; on
\* the last allowed attempt a rejected fetch is the error surfaced, while a
\* non-2xx answer is slept on and the timed-out error is surfaced.
C4_TransientRetry ==
    \A i \in Invocations :
        LET j   == jobs[i]
            max == maxPollAttempts[j.gen]
            a   == AnsweredAttempt(j)
        IN  (Started(j) /\ TransientFailure(j.lastStatus)) =>
                IF a < max - 1
                THEN \/ j.pc = "sleeping"
                     \/ j.pc = "awaitStatus" /\ j.nGet[j.stage] = a + 2
                ELSE IF j.lastStatus.kind = "reject"
                THEN j.pc = "rejected" /\ j.error = NetworkError /\ j.nGet[j.stage] = max
                ELSE /\ j.nGet[j.stage] = max
                     /\ \/ j.pc = "sleeping"
                        \/ j.pc = "rejected" /\ j.error = TimedOutError(max)

C4_Witness ==
    \E i \in Invocations :
        /\ jobs[i].pc = "rejected"
        /\ jobs[i].lastStatus = HttpFailure(500, "oops")
        /\ jobs[i].error = TimedOutError(maxPollAttempts[jobs[i].gen])

\* C5: once a status GET has answered completed or succeeded without any
\* asset URL, the invocation has failed with the no-asset error, and no
\* status GET was issued after that answer.
C5_MissingAssetEndsPolling ==
    \A i \in Invocations :
        LET j == jobs[i]
        IN  j.firstTerminal.kind = "noasset" =>
                /\ j.pc = "rejected"
                /\ j.error = NoVideoUrlError
                /\ ~j.firstTerminal.polledAgain

\* C6: a callback subscribed through onVideoGenerationProgress before a
\* generation was started with generateDreamVideoWithProgress, and not
\* unsubscribed since, has been called with every event of that generation.
C6_WatcherReceivesEveryEvent ==
    \A i \in Invocations :
        \A w \in jobs[i].watchers : received[w[2]][i] >= jobs[i].emitted

\* C7: a call of generateVideo with an empty or whitespace-only prompt has
\* failed at once with the empty-prompt error, having published one ERROR
\* event and issued no POST, no GET and no sleep.
C7_EmptyPromptNoNetwork ==
    \A i \in Invocations :
        LET j == jobs[i]
        IN  (Started(j) /\ OnlyWhitespace(j.prompt)) =>
                /\ j.pc = "rejected"
                /\ j.error = EmptyPromptError
                /\ j.posts = <<>> /\ j.nGet = <<0, 0>> /\ j.nSleep = 0
                /\ j.emitted = 1 /\ j.lastEvent.status = "error"

C7_Witness ==
    \E i \in Invocations :
        /\ jobs[i].prompt = <<" ", "\n">>
        /\ jobs[i].pc = "rejected"
        /\ jobs[i].lastEvent = EmptyPromptEvent

ExpectedFailures ==
    {EmptyPromptError.message, MissingIdError.message, ApiError(0, "").message,
     GenerationFailedError("").message, TimedOutError(0).message}

\* C8 as stated: an expected failure (empty prompt, non-2xx submission,
\* missing generation id, failed generation, poll timeout) never rejects the
\* promise of generateVideo.
C8_FailuresAreReturned ==
    \A i \in Invocations :
        jobs[i].error.message \in ExpectedFailures => jobs[i].pc # "rejected"

\* C8 as amended: generateVideo fails exactly by rejecting its promise with
\* the Error, after publishing as its last event an ERROR event that carries
\* the message; no result object is returned on failure, and a returned
\* result carries no error.
C8_FailuresReject ==
    \A i \in Invocations :
        LET j == jobs[i]
        IN  /\ j.pc = "rejected" <=> j.error # NoError
            /\ j.pc = "rejected" =>
                   /\ j.result = NoResult
                   /\ j.lastEvent.status = "error"
                   /\ IF j.error = EmptyPromptError
                      THEN j.lastEvent.message = j.error.message
                      ELSE j.lastEvent.cause = j.error
            /\ j.pc = "resolved" => (j.result.videoUrl # "" /\ j.lastEvent = CompletedEvent)

C8_Witness ==
    \E i \in Invocations :
        /\ jobs[i].pc = "rejected"
        /\ jobs[i].error = TimedOutError(maxPollAttempts[jobs[i].gen])
        /\ jobs[i].lastEvent = ErrorEvent(jobs[i].error)

\* C9: when the Stage-1 POST was answered non-2xx the invocation has failed
\* with the API error carrying that status and body, when it was answered
\* 2xx without an id it has failed with the missing-generation-id error; in
\* both cases no status GET, no sleep and no extension POST was issued.
C9_SubmissionFailure ==
    \A i \in Invocations :
        LET j == jobs[i]
            a == j.createAnswer
        IN  /\ (a.kind = "http" /\ ~a.ok) =>
                   /\ j.pc = "rejected"
                   /\ j.error = [message |-> "LumaLabs API error: ${status} - ${errorText}",
                                 number |-> a.status, text |-> a.body]
                   /\ j.nGet = <<0, 0>> /\ j.nSleep = 0 /\ Len(j.posts) = 1
            /\ (a.kind = "http" /\ a.ok /\ a.id = "") =>
                   /\ j.pc = "rejected"
                   /\ j.error.message = "Failed to get generation ID from LumaLabs response"
                   /\ j.nGet = <<0, 0>> /\ j.nSleep = 0 /\ Len(j.posts) = 1

C9_Witness ==
    \E i \in Invocations :
        /\ jobs[i].extendMode
        /\ jobs[i].createAnswer = Created("")
        /\ jobs[i].pc = "rejected"

\* C10: the extension POST exists only in extend mode and only once the
\* first job's poll run has returned a URL; its keyframes.frame0 is
\* {type: "generation", id: <first job id>}; the poll loop runs on the first
\* job's id in stage 1 and on the extension's id in stage 2; without extend
\* mode a validated call makes exactly one POST, which has no keyframes.
C10_ExtensionAfterFirstJob ==
    \A i \in Invocations :
        LET j == jobs[i]
        IN  (Started(j) /\ ~OnlyWhitespace(j.prompt)) =>
                /\ Len(j.posts) \in {1, 2}
                /\ j.posts[1].keyframes = None
                /\ Len(j.posts) = 2 =>
                       /\ j.extendMode
                       /\ j.initialVideoUrl # "" /\ j.generationId # ""
                       /\ j.nGet[1] >= 1
                       /\ j.posts[2].keyframes =
                              Some([type |-> "generation", id |-> j.generationId])
                /\ (j.extendMode /\ j.initialVideoUrl # "") => Len(j.posts) = 2
                /\ Polling(j) =>
                       j.polledId = (IF j.stage = 1 THEN j.generationId ELSE j.extendedId)
                /\ j.stage = 2 => (Len(j.posts) = 2 /\ j.extendedId # "")
                /\ j.nGet[2] > 0 => j.stage = 2
                /\ ~j.extendMode => (Len(j.posts) = 1 /\ j.stage = 1)

C10_Witness ==
    \E i \in Invocations :
        /\ jobs[i].pc = "resolved"
        /\ jobs[i].stage = 2
        /\ jobs[i].generationId = "g1"
        /\ jobs[i].extendedId = "g2"
        /\ jobs[i].posts[2].keyframes = Some(Frame0("g1"))

\* C11: when generateVideo has returned, its generationId and videoUrl are
\* the extension job's in extend mode (the id answered to the extension
\* POST, the URL extracted from the last status answer of the poll run on
\* that id) and the first job's otherwise.
C11_ResultFromLastStage ==
    \A i \in Invocations :
        LET j == jobs[i]
        IN  j.pc = "resolved" =>
                /\ j.polledId = j.result.generationId
                /\ j.result.videoUrl = extractVideoUrl(j.lastStatus)
                /\ IF j.extendMode
                   THEN /\ j.stage = 2
                        /\ j.result.generationId = j.extendedId
                        /\ j.nGet[2] >= 1
                   ELSE /\ j.stage = 1
                        /\ j.result.generationId = j.generationId
                        /\ j.result.videoUrl = j.initialVideoUrl
                        /\ j.nGet[2] = 0

C11_Witness ==
    \E i \in Invocations :
        /\ jobs[i].pc = "resolved"
        /\ jobs[i].extendMode
        /\ jobs[i].generationId = "g1"
        /\ jobs[i].initialVideoUrl = "v1"
        /\ jobs[i].result.generationId = "g2"
        /\ jobs[i].result.videoUrl = "https://x/video.mp4"

\* C12: when generateVideo has returned, its result has the one field
\* videoUrl for an asset, that URL is not empty and is the one extracted
\* from the last status answer, an answer whose state was completed or
\* succeeded; the first stage's URL is not part of the result of an
\* extended generation.
C12_OneUrlFromCompletedStatus ==
    \A i \in Invocations :
        LET j == jobs[i]
        IN  j.pc = "resolved" =>
                /\ DOMAIN j.result = {"videoUrl", "generationId", "prompt", "extendedPrompt"}
                /\ j.result.videoUrl # ""
                /\ TerminalSuccess(j.lastStatus)
                /\ j.result.videoUrl \in PopulatedUrls(j.lastStatus)

C12_Witness ==
    \E i \in Invocations :
        /\ jobs[i].pc = "resolved"
        /\ jobs[i].lastStatus.state = "succeeded"
        /\ jobs[i].lastStatus.resultUrl = "r1"
        /\ jobs[i].result.videoUrl = "v1"

Settled(j) == j.pc \in {"resolved", "rejected"}

\* C13: the statuses published by one invocation only move forward along
\* IDLE, STARTING, QUEUED, GENERATING, {COMPLETED, ERROR} (a status may
\* repeat and may be skipped, ERROR can follow any of them) and nothing
\* follows a terminal status; an invocation that has not settled has
\* published no terminal event, one that has settled has published exactly
\* one, as its last event: COMPLETED when it returned, ERROR when it threw.
C13_StatusPath ==
    \A i \in Invocations :
        LET j == jobs[i]
        IN  /\ ~j.backward
            /\ j.terminals = (IF Settled(j) THEN 1 ELSE 0)
            /\ j.pc = "resolved" => j.lastEvent.status = "completed"
            /\ j.pc = "rejected" => j.lastEvent.status = "error"
            /\ (Started(j) /\ ~Settled(j)) => j.lastEvent.status \in {"starting", "generating"}
            /\ j.emitted = 0 <=> ~Started(j)

C13_Witness ==
    \E i \in Invocations :
        /\ jobs[i].pc = "resolved"
        /\ jobs[i].stage = 2
        /\ jobs[i].emitted >= 6
        /\ jobs[i].terminals = 1
        /\ jobs[i].lastEvent = CompletedEvent

\* C14: one invocation issues at most maxPollAttempts status GETs and at
\* most maxPollAttempts poll-interval sleeps, extension included.
C14_PollBudgetPerInvocation ==
    \A i \in Invocations :
        LET j   == jobs[i]
            max == maxPollAttempts[j.gen]
        IN  Started(j) => (j.nGet[1] + j.nGet[2] <= max /\ j.nSleep <= max)

\* the text before the first separator of str
BeforeDelimiter(str) == SubSeq(str, 1, IndexOf(str, Delimiter) - 1)

\* the text after the first separator of str
AfterDelimiter(str) == SubSeq(str, IndexOf(str, Delimiter) + Len(Delimiter), Len(str))

\* the text between the first separator of str and the next one, or the end
SecondPart(str) ==
    IF Includes(AfterDelimiter(str), Delimiter)
    THEN BeforeDelimiter(AfterDelimiter(str))
    ELSE AfterDelimiter(str)

\* the extensionPrompt argument, or the fixed phrase when it is undefined
\* or empty
Supplied(j) ==
    IF j.extensionPrompt \in {None, Some(<<>>)} THEN DefaultExtensionPrompt
    ELSE j.extensionPrompt[1]

\* what is submitted for an extension prompt ext
SubmittedFor(ext) ==
    IF Includes(ext, Delimiter) /\ Trim(SecondPart(ext)) # <<>>
    THEN Trim(SecondPart(ext))
    ELSE ext

Validated(j) == Started(j) /\ ~OnlyWhitespace(j.prompt)

C16_NoDelimiterUsesSupplied ==
    \A i \in Invocations :
        LET j == jobs[i]
        IN  (Validated(j) /\ j.extendMode /\ ~Includes(j.prompt, Delimiter)) =>
                /\ j.posts[1].prompt = Trim(j.prompt)
                /\ Len(j.posts) = 2 => j.posts[2].prompt = Supplied(j)

\* C16 as amended: in extend mode, without the separator in the prompt, the
\* Stage-1 POST carries the whole trimmed prompt; the extension prompt
\* handed to extendVideo and returned as extendedPrompt is the supplied
\* extensionPrompt, or the fixed phrase when none (or "") was supplied; the
\* extension POST carries that text, unless it contains the separator and
\* the trimmed text between its first separator and the next one (or the
\* end) is not empty, which is then carried instead.
C16_NoDelimiterUsesSuppliedSplit ==
    \A i \in Invocations :
        LET j == jobs[i]
        IN  (Validated(j) /\ j.extendMode /\ ~Includes(j.prompt, Delimiter)) =>
                /\ j.posts[1].prompt = Trim(j.prompt)
                /\ j.extPrompt = Supplied(j)
                /\ Len(j.posts) = 2 => j.posts[2].prompt = SubmittedFor(Supplied(j))
                /\ j.pc = "resolved" =>
                       /\ j.result.prompt = Trim(j.prompt)
                       /\ j.result.extendedPrompt = Some(Supplied(j))

C16_Witness ==
    \E i \in Invocations :
        /\ jobs[i].pc = "resolved"
        /\ jobs[i].extendMode
        /\ jobs[i].prompt = <<" ", "A", "\n">>
        /\ jobs[i].extensionPrompt = Some(<<"X">> \o Delimiter \o <<" ", "Y">>)
        /\ jobs[i].posts[2].prompt = <<"Y">>
        /\ jobs[i].result.extendedPrompt = jobs[i].extensionPrompt

\* the URL fields of data in the order of precedence
UrlFields(data) == <<data.video, data.url, data.videosUrl, data.resultUrl>>

\* C17: extractVideoUrl returns the first populated field in the order
\* assets.video, assets.url, assets.videos.url, result.url, for every
\* combination of populated fields, and returns no URL exactly when none of
\* the four is populated.
C17_FirstPopulatedField ==
    LET fields    == UrlFields(extraction.data)
        populated == {k \in 1..4 : fields[k] # ""}
    IN  extraction.called =>
            /\ extraction.url = "" <=> populated = {}
            /\ \A k \in populated :
                   (\A h \in populated : k <= h) => extraction.url = fields[k]

C17_Witness ==
    /\ extraction.called
    /\ extraction.data.video = ""
    /\ extraction.data.url = "u2"
    /\ extraction.data.videosUrl = "w1"
    /\ extraction.data.resultUrl = "r1"
    /\ extraction.url = "u2"

\* the text parses as JSON and has a prompt field
HasPromptField(text) ==
    /\ JSONparse(text).ok
    /\ JSONparse(text).value.type = "object"
    /\ \E k \in 1..Len(JSONparse(text).value.members) :
           JSONparse(text).value.members[k][1] = <<"p", "r", "o", "m", "p", "t">>

\* C18: building the request never fails the call; a text that parses as
\* JSON and has a prompt field is submitted as that field's value; every
\* other text is submitted unchanged.
C18_AllOrNothing ==
    submission.called =>
        /\ ~submission.threw
        /\ submission.body.prompt =
               (IF HasPromptField(submission.prompt)
                THEN Get(JSONparse(submission.prompt).value, <<"p", "r", "o", "m", "p", "t">>)
                ELSE JString(submission.prompt))

EnhanceStarted(j) == j.pc # "idle"

\* C19: an invocation of enhanceDream with an empty or whitespace-only
\* description has issued no fetch, has published one event, of status
\* ERROR, and has returned a result of status ERROR.
C19_EmptyDescriptionRefused ==
    \A i \in EnhancementCalls :
        LET j == enhancements[i]
        IN  (EnhanceStarted(j) /\ OnlyWhitespace(j.dreamDescription)) =>
                /\ j.fetches = 0
                /\ j.published = <<"error">>
                /\ j.pc = "returned"
                /\ j.result.status = "error"

\* C20: an invocation of enhanceDream made while no API key is configured
\* has issued no fetch, has published one event, of status ERROR, and has
\* returned a result of status ERROR.
C20_MissingKeyRefused ==
    \A i \in EnhancementCalls :
        LET j == enhancements[i]
        IN  (EnhanceStarted(j) /\ ~OnlyWhitespace(j.dreamDescription) /\ j.apiKey = "") =>
                /\ j.fetches = 0
                /\ j.published = <<"error">>
                /\ j.pc = "returned"
                /\ j.result.status = "error"

\* C21: an invocation of enhanceDream with a description that is not empty
\* and not only whitespace has issued exactly one fetch to the completion
\* endpoint.
C21_OneFetchPerCall ==
    \A i \in EnhancementCalls :
        LET j == enhancements[i]
        IN  (EnhanceStarted(j) /\ ~OnlyWhitespace(j.dreamDescription)) => j.fetches = 1

\* C22: every result enhanceDream has returned has status COMPLETED and a
\* non-empty enhancedPrompt, or status ERROR and a non-empty error message.
C22_ResultShape ==
    \A i \in EnhancementCalls :
        LET j == enhancements[i]
        IN  j.pc = "returned" =>
                \/ /\ j.result.status = "completed"
                   /\ j.result.enhancedPrompt # None
                   /\ j.result.enhancedPrompt[1] # <<>>
                \/ /\ j.result.status = "error"
                   /\ j.result.error # None
                   /\ j.result.error[1] # <<>>

\* a 2xx answer without content, or with content that is empty or only
\* whitespace, was returned as an ERROR result
C22_Witness ==
    \E i \in EnhancementCalls :
        LET j == enhancements[i]
        IN  /\ j.pc = "returned"
            /\ j.answer.ok
            /\ j.answer.body = "content"
            /\ j.answer.content # <<>>
            /\ OnlyWhitespace(j.answer.content)
            /\ j.result.status = "error"
            /\ j.result.error = Some(Messages.noResponse)

\* the failures of C23: an empty description, a missing key, a fetch that
\* rejected, a non-2xx answer, a 2xx answer without content
EnhanceFailed(j) ==
    \/ OnlyWhitespace(j.dreamDescription)
    \/ j.apiKey = ""
    \/ j.answer.kind = "reject"
    \/ j.answer.kind = "http" /\ ~j.answer.ok
    \/ j.answer.kind = "http" /\ j.answer.ok
          /\ (j.answer.body # "content" \/ OnlyWhitespace(j.answer.content))

\* C23: no invocation of enhanceDream has ended in a rejected promise, and
\* an invocation that met a failure and has ended has returned a result of
\* status ERROR and published exactly one ERROR event.
C23_FailuresReturned ==
    \A i \in EnhancementCalls :
        LET j == enhancements[i]
        IN  /\ j.pc # "rejected"
            /\ (j.pc = "returned" /\ EnhanceFailed(j)) =>
                   /\ j.result.status = "error"
                   /\ Count(j.published, "error") = 1

EnhanceSettled(j) == j.pc \in {"returned", "rejected"}

\* C24: an invocation of enhanceDream that returned a COMPLETED result has
\* published ENHANCING and then COMPLETED and nothing else, and every
\* invocation that has ended has published exactly one terminal event.
C24_EnhanceEventOrder ==
    \A i \in EnhancementCalls :
        LET j == enhancements[i]
        IN  /\ (j.pc = "returned" /\ j.result.status = "completed") =>
                   j.published = <<"enhancing", "completed">>
            /\ EnhanceSettled(j) =>
                   Count(j.published, "completed") + Count(j.published, "error") = 1

\* the message the endpoint supplied with a non-2xx answer, <<>> when it
\* supplied none
ProviderMessage(r) == OrElse(r.errorData.error, r.errorData.message)

\* the text "OpenAI API error: <status> - <provider message>", with
\* "Unknown error" where the provider supplied no message
UpstreamText(r) ==
    <<"O", "p", "e", "n", "A", "I", " ", "A", "P", "I", " ", "e", "r", "r", "o", "r", ":", " ">>
    \o r.status \o <<" ", "-", " ">>
    \o OrElse(ProviderMessage(r), <<"U", "n", "k", "n", "o", "w", "n", " ", "e", "r", "r", "o", "r">>)

ReturnedUpstreamFailure(j) ==
    j.pc = "returned" /\ j.answer.kind = "http" /\ ~j.answer.ok

\* C25, as claimed: the result returned after a non-2xx answer has status
\* ERROR, and its error message contains the HTTP status and the message the
\* provider supplied.
C25_CarriesStatusAndMessage ==
    \A i \in EnhancementCalls :
        LET j == enhancements[i]
        IN  ReturnedUpstreamFailure(j) =>
                /\ j.result.status = "error"
                /\ j.result.error # None
                /\ Includes(j.result.error[1], j.answer.status)
                /\ Includes(j.result.error[1], ProviderMessage(j.answer))

\* C25, amended: the result returned after a non-2xx answer has status
\* ERROR; its error message is the text "OpenAI API error: <status> -
\* <provider message>", unless that text contains "quota" or "billing", or
\* else "network" or "fetch", or else "API key", and then it is the fixed
\* message of that class, without status and provider message.
C25_CarriesStatusUnlessClassified ==
    \A i \in EnhancementCalls :
        LET j    == enhancements[i]
            text == UpstreamText(j.answer)
        IN  ReturnedUpstreamFailure(j) =>
                /\ j.result.status = "error"
                /\ j.result.error =
                     Some(IF Includes(text, <<"q", "u", "o", "t", "a">>)
                             \/ Includes(text, <<"b", "i", "l", "l", "i", "n", "g">>)
                          THEN <<"O", "p", "e", "n", "A", "I", " ", "q", "u", "o", "t", "a", " ",
                                 "e", "x", "c", "e", "e", "d", "e", "d", " ", "o", "r", " ", "b",
                                 "i", "l", "l", "i", "n", "g", " ", "i", "s", "s", "u", "e">>
                          ELSE IF Includes(text, <<"n", "e", "t", "w", "o", "r", "k">>)
                                  \/ Includes(text, <<"f", "e", "t", "c", "h">>)
                          THEN <<"N", "e", "t", "w", "o", "r", "k", " ", "e", "r", "r", "o", "r",
                                 " ", "-", " ", "p", "l", "e", "a", "s", "e", " ", "c", "h", "e",
                                 "c", "k", " ", "y", "o", "u", "r", " ", "c", "o", "n", "n", "e",
                                 "c", "t", "i", "o", "n">>
                          ELSE IF Includes(text, <<"A", "P", "I", " ", "k", "e", "y">>)
                          THEN <<"I", "n", "v", "a", "l", "i", "d", " ", "O", "p", "e", "n", "A",
                                 "I", " ", "A", "P", "I", " ", "k", "e", "y">>
                          ELSE text)

\* a 503 answer with the provider message "busy" was returned with both in
\* the error message
C25_Witness ==
    \E i \in EnhancementCalls :
        LET j == enhancements[i]
        IN  /\ ReturnedUpstreamFailure(j)
            /\ j.answer.status = <<"5", "0", "3">>
            /\ ProviderMessage(j.answer) = <<"b", "u", "s", "y">>
            /\ j.result.error = Some(UpstreamText(j.answer))

\* the calls a publication of an event of that status makes when it calls
\* every listener of list once, in the order of the list
OnceInOrder(list, status) == [k \in 1..Len(list) |-> <<list[k], status>>]

\* C26: every publication has called every listener that was registered
\* when it was made exactly once, in the order of registration: on a
\* generator, the calls made for the last event of each invocation are
\* those of the listener list it found; on the enhancement service, the
\* calls made by each invocation are those of the listener lists its
\* publications found.
C26_EveryListenerOnceInOrder ==
    /\ \A i \in Invocations :
           jobs[i].called = OnceInOrder(jobs[i].registered, jobs[i].lastEvent.status)
    /\ \A i \in EnhancementCalls :
           enhancements[i].delivered = enhancements[i].registered

\* C27: on a generator, every listener registered after a listener that
\* throws has been called with the event all the same, at its place in the
\* order, and no exception of a listener has left notifyProgress into
\* generateVideo.
C27_GeneratorIsolatesListeners ==
    \A i \in Invocations :
        LET j == jobs[i]
        IN  /\ \A k \in 1..Len(j.registered) :
                   j.registered[k] \in ThrowingCallbacks =>
                       \A m \in (k + 1)..Len(j.registered) :
                           /\ m <= Len(j.called)
                           /\ j.called[m] = <<j.registered[m], j.lastEvent.status>>
            /\ ~j.escaped

\* a generation resolved, its COMPLETED event having been delivered to a
\* listener that throws and then to the listener registered after it
C27_Witness ==
    \E i \in Invocations :
        LET j == jobs[i]
        IN  /\ j.pc = "resolved"
            /\ j.registered = <<"c2", "c1">>
            /\ j.lastEvent.status = "completed"
            /\ j.called = << <<"c2", "completed">>, <<"c1", "completed">> >>

\* C28: on the enhancement service, every listener registered after a
\* listener that throws has been called with the event all the same, no
\* invocation of enhanceDream has ended with an exception, and an invocation
\* that met no failure and has ended has returned a COMPLETED result.
C28_ServiceIsolatesListeners ==
    \A i \in EnhancementCalls :
        LET j == enhancements[i]
        IN  /\ \A k \in 1..Len(j.registered) :
                   j.registered[k][1] \in ThrowingCallbacks =>
                       \A m \in (k + 1)..Len(j.registered) :
                           /\ m <= Len(j.delivered)
                           /\ j.delivered[m] = j.registered[m]
            /\ j.pc # "rejected"
            /\ j.thrown = NothingThrown
            /\ (EnhanceSettled(j) /\ ~EnhanceFailed(j)) =>
                   /\ j.pc = "returned"
                   /\ j.result.status = "completed"

\* list without its k-th entry
RemoveAt(list, k) == SubSeq(list, 1, k - 1) \o SubSeq(list, k + 1, Len(list))

\* the step is a call of the closure handles[h], its n-th
CallOf(handles, handlesNext, h, n) ==
    /\ Len(handlesNext) = Len(handles)
    /\ handles[h].calls = n - 1
    /\ handlesNext[h].calls = n

\* C29: the first call of an unsubscribe closure removes one registration of
\* its callback from the listener list it was returned for and leaves every
\* other entry of the list, in order; stated for the closures of the
\* generators and for those of the enhancement service.
C29_RemovesOneRegistration ==
    [][ /\ \A h \in 1..Len(unsubscribers) :
               CallOf(unsubscribers, unsubscribers', h, 1) =>
                   LET list == progressListeners[unsubscribers[h].gen]
                   IN  \E k \in 1..Len(list) :
                           /\ list[k] = unsubscribers[h].callback
                           /\ progressListeners'[unsubscribers[h].gen] = RemoveAt(list, k)
        /\ \A h \in 1..Len(listenerHandles) :
               CallOf(listenerHandles, listenerHandles', h, 1) =>
                   \E k \in 1..Len(listeners) :
                       /\ listeners[k] = listenerHandles[h].callback
                       /\ listeners' = RemoveAt(listeners, k) ]_vars

\* C30: the second call of an unsubscribe closure leaves the listener list
\* as it is; stated for the closures of the generators and for those of the
\* enhancement service.
C30_SecondCallIsNoOp ==
    [][ /\ \A h \in 1..Len(unsubscribers) :
               CallOf(unsubscribers, unsubscribers', h, 2) =>
                   progressListeners' = progressListeners
        /\ \A h \in 1..Len(listenerHandles) :
               CallOf(listenerHandles, listenerHandles', h, 2) =>
                   listeners' = listeners ]_vars


\* ------------------------------------------------------------------- C31

\* C31: two invocations of generateVideo running concurrently on the same
\* generator proceed independently. Each polls the job the service created
\* for it, the attempt number in each of its poll events is the number of
\* status requests it has itself made, whatever the other has done, and
\* each returns the URL and the id of its own job.
C31_InvocationsIndependent ==
    \A i \in Invocations :
        LET j == jobs[i]
        IN  /\ j.pc \in {"awaitStatus", "sleeping"} => j.polledId = JobId(i)
            /\ j.pc # "idle" => j.nGet[1] <= maxPollAttempts[j.gen]
            /\ j.lastPolled # NoEvent =>
                    /\ j.lastPolled.attempt[1] <= j.nGet[1]
                    /\ j.lastPolled.maxAttempts = Some(maxPollAttempts[j.gen])
            /\ (j.pc = "sleeping" /\ j.lastStatus.ok) =>
                    j.lastPolled.attempt = Some(j.nGet[1])
            /\ j.pc = "resolved" =>
                    /\ j.lastPolled.attempt = Some(j.nGet[1])
                    /\ j.result.generationId = JobId(i)
                    /\ j.result.videoUrl = JobUrl(JobId(i))

\* both invocations have returned, one after a single status request while
\* the other was in the middle of its polling, which took three
C31_Witness ==
    /\ jobs[1].pc = "resolved" /\ jobs[1].nGet[1] = 1
    /\ jobs[2].pc = "resolved" /\ jobs[2].nGet[1] = 3
    /\ jobs[1].result.videoUrl # jobs[2].result.videoUrl

\* ------------------------------------------------------------------- C36

\* C36: an invocation of generateVideo uses the configuration as it was
\* when the call started. It makes at most that many status requests, its
\* poll events carry that budget and an estimate computed from that
\* interval, the timed-out error names that budget, and a network error is
\* surfaced on the last attempt of that budget only.
C36_ConfigSnapshot ==
    \A i \in Invocations :
        LET j == jobs[i]
            max == j.configAtStart.maxPollAttempts
            interval == j.configAtStart.pollInterval
        IN  j.pc # "idle" =>
                /\ j.nGet[1] <= max /\ j.nGet[2] <= max
                /\ j.lastPolled # NoEvent =>
                       /\ j.lastPolled.maxAttempts = Some(max)
                       /\ j.lastPolled.estimatedTimeRemaining =
                              Some(Max(120 - (j.lastPolled.attempt[1] - 1) * interval, 10))
                /\ (j.pc = "rejected" /\ j.error.message = TimedOutError(0).message) =>
                       j.error.number = max
                /\ (j.pc = "rejected" /\ j.lastStatus.kind = "reject") =>
                       j.attempt = max - 1

\* ------------------------------------------------------------------- C32

\* Math.round(20 + (a / m) * 70) after the adjustment for the observed
\* state, as the claim words it; class is the message of the poll event,
\* which names the class of the state
ClaimedProgress(class, a, m) ==
    LET Round(num, den) == (2 * num + den) \div (2 * den)
        base == Round(20 * m + 70 * a, m)
    IN  IF class = PollMessage("queued") THEN Min(base, 40)
        ELSE IF class = PollMessage("processing") THEN Max(base, 50)
        ELSE IF class = PollMessage("completed") THEN 95
        ELSE base

\* C32: the progress of the poll event for attempt index a with budget m is
\* round(20 + (a/m)*70), capped at 40 for "queued", raised to at least 50
\* for "processing" and "generating", 95 for "completed" and "succeeded";
\* an event with progress 100 is the final COMPLETED event.
C32_ProgressFormula ==
    \A i \in Invocations :
        LET j == jobs[i]
            e == j.lastPolled
        IN  /\ e # NoEvent =>
                /\ e.progress = Some(ClaimedProgress(e.message, e.attempt[1] - 1, e.maxAttempts[1]))
                /\ e.progress # Some(100)
            /\ j.lastEvent.progress = Some(100) => j.lastEvent = CompletedEvent

\* ------------------------------------------------------------------- C33

\* C33: every progress event emitted during polling is well formed:
\* 0 <= progress <= 100, 1 <= attempt <= maxAttempts, and
\* estimatedTimeRemaining = max(120 - attemptIndex * pollInterval, 10), which
\* lies between 10 and 120.
C33_PollEventWellFormed ==
    \A i \in Invocations :
        LET j == jobs[i]
            e == j.lastPolled
        IN  e # NoEvent =>
                /\ e.progress[1] \in 0..100
                /\ e.attempt[1] \in 1..e.maxAttempts[1]
                /\ \E interval \in 1..120 :
                       e.estimatedTimeRemaining = Some(Max(120 - (e.attempt[1] - 1) * interval, 10))
                /\ e.estimatedTimeRemaining[1] \in 10..120

\* ------------------------------------------------------------------- C38

\* C38: within one invocation of generateVideo the progress values
\* delivered to a listener never decrease from one event to the next, in
\* normal and in extend mode, whatever states the service reports.
C38_ProgressNeverDecreases ==
    \A i \in Invocations : ~jobs[i].decreased

\* ------------------------------------------------------------------- C39

\* C39: every submission POST of generateVideo, for the first stage and for
\* the extension, carries a prompt that is defined and not empty after
\* trimming, whatever validated prompt was passed: in the job's requests,
\* and in the request the version with structured prompts builds.
C39_SubmittedPromptsNonEmpty ==
    /\ \A i \in Invocations :
           \A k \in 1..Len(jobs[i].posts) : Trim(jobs[i].posts[k].prompt) # <<>>
    /\ (submission.called /\ ~submission.threw /\ Trim(submission.prompt) # <<>>) =>
           /\ submission.body.prompt.type = "string"
           /\ Trim(submission.body.prompt.str) # <<>>

\* ------------------------------------------------------------------- C37

\* C37: once the unsubscribe function of a listener has returned, the
\* listener is not invoked again, also when the unsubscribe function was
\* called by another listener during a publish: no listener is invoked
\* while the generator's listener list no longer holds it.
C37_NoCallAfterUnsubscribe ==
    ~delivery.stale

\* ------------------------------------------------------------------- C40

\* the runs of the Record screen's generateVideo that have not ended
InFlight == {i \in 1..Len(record.runs) : record.runs[i].pc # "done"}

\* C40: at most one pipeline of enhancement and generation started by the
\* Record screen is in flight at any time, whatever the order of send
\* presses, recording-complete callbacks and renders.
C40_OnePipelineInFlight ==
    Cardinality(InFlight) <= 1

\* ------------------------------------------------------------------- C34

\* the runs of the Record screen's generateVideo to which enhanceDream has
\* returned
Enhanced == {i \in 1..Len(record.runs) : record.runs[i].enhancement.status # "idle"}

\* C34, as claimed: when enhanceDream returns status ERROR,
\* generateDreamVideoWithProgress is still called, with the transcribed
\* text as the prompt; when enhancement succeeds it is called with the
\* enhanced prompt.
C34_GenerationAfterEnhancement ==
    \A i \in Enhanced :
        LET run == record.runs[i]
        IN  /\ run.generated
            /\ run.promptToUse = (IF run.enhancement.status = "error"
                                  THEN run.transcribedText
                                  ELSE run.enhancement.enhancedPrompt[1])

\* C34, amended: the same when a Luma API key is configured; without one
\* generateDreamVideoWithProgress is not called, whatever enhanceDream
\* returned.
C34_GenerationAfterEnhancementWithKey ==
    \A i \in Enhanced :
        LET run == record.runs[i]
        IN  IF record.lumaApiKey = "" THEN ~run.generated
            ELSE /\ run.generated
                 /\ run.promptToUse = (IF run.enhancement.status = "error"
                                       THEN run.transcribedText
                                       ELSE run.enhancement.enhancedPrompt[1])

\* a run whose enhancement failed and whose generation, called with the
\* transcribed text, has produced a video
C34_Witness ==
    \E i \in Enhanced :
        /\ record.runs[i].enhancement.status = "error"
        /\ record.runs[i].generated
        /\ record.runs[i].promptToUse = <<"T">>
        /\ record.runs[i].videoUrl # ""

\* ------------------------------------------------------------------- C35

\* the run of generateVideo that passed the entry guard as the i-th has
\* just ended: isGenerating is false and videoUri is the URL it generated,
\* or the placeholder when it failed
Ended(i) ==
    /\ Len(record.runs) >= i
    /\ record.runs[i].pc = "done"
    /\ ~record.state.isGenerating
    /\ record.state.videoUri = (IF record.runs[i].videoUrl # "" THEN record.runs[i].videoUrl
                                ELSE "placeholder")

\* C35: every run of the Record screen's generateVideo that passed its
\* entry guard eventually ends with isGenerating reset to false and
\* videoUri set to the generated URL, or to the placeholder after a
\* failure, and a screen that shows the generating state eventually stops
\* showing it.
C35_RunEnds ==
    /\ \A i \in 1..MaxRuns : (i \in InFlight) ~> Ended(i)
    /\ record.view.isGenerating ~> ~record.view.isGenerating

\* a run has ended at the placeholder because no Luma key is configured
C35_Witness ==
    /\ record.lumaApiKey = ""
    /\ Ended(1)
    /\ record.state.videoUri = "placeholder"
    /\ ~record.view.isGenerating
    /\ record.runs[1].enhancement.status = "completed"

====
